---------------------------- MODULE Spec2Model ----------------------------
(***************************************************************************)
(* Neon Snake: the game engine (GameEngine.ts), its spawn system           *)
(* (spawn.ts), its collision predicates (collision.ts) and its seeded      *)
(* PRNG (rng.ts), as a state machine over the engine's public operations.  *)
(***************************************************************************)
EXTENDS Integers, Sequences, FiniteSets

(***************************************************************************)
(* 32-bit words.  JavaScript's bitwise operators work on 32-bit integers;  *)
(* a word is kept here as <<hi, lo>>, its two 16-bit halves.               *)
(***************************************************************************)
\* One bit of a ^ b and of a | b
XorBit(a, b) == (a + b) % 2
OrBit(a, b)  == IF a + b > 0 THEN 1 ELSE 0

\* a ^ b and a | b on 4-bit digits, tabulated
Xor4 ==
    [a \in 0..15 |-> [b \in 0..15 |->
        XorBit(a % 2, b % 2)
        + 2 * XorBit((a \div 2) % 2, (b \div 2) % 2)
        + 4 * XorBit((a \div 4) % 2, (b \div 4) % 2)
        + 8 * XorBit(a \div 8, b \div 8)]]

Or4 ==
    [a \in 0..15 |-> [b \in 0..15 |->
        OrBit(a % 2, b % 2)
        + 2 * OrBit((a \div 2) % 2, (b \div 2) % 2)
        + 4 * OrBit((a \div 4) % 2, (b \div 4) % 2)
        + 8 * OrBit(a \div 8, b \div 8)]]

\* a ^ b and a | b on 16-bit halves, digit by digit
Xor16(a, b) ==
    Xor4[a % 16][b % 16]
    + 16 * Xor4[(a \div 16) % 16][(b \div 16) % 16]
    + 256 * Xor4[(a \div 256) % 16][(b \div 256) % 16]
    + 4096 * Xor4[a \div 4096][b \div 4096]

Or16(a, b) ==
    Or4[a % 16][b % 16]
    + 16 * Or4[(a \div 16) % 16][(b \div 16) % 16]
    + 256 * Or4[(a \div 256) % 16][(b \div 256) % 16]
    + 4096 * Or4[a \div 4096][b \div 4096]

\* 2^k for 0 <= k <= 16
Pow2(k) == <<1, 2, 4, 8, 16, 32, 64, 128, 256, 512, 1024, 2048, 4096, 8192,
             16384, 32768, 65536>>[k + 1]

W16 == 256 * 256

\* a ^ b
WXor(a, b) == <<Xor16(a[1], b[1]), Xor16(a[2], b[2])>>

\* a | c, for a fixed c < 2^16
WOrLow(a, c) == <<a[1], Or16(a[2], c)>>

\* a >>> k, for 0 < k < 16
WShr(a, k) ==
    <<a[1] \div Pow2(k),
      (a[2] \div Pow2(k)) + (a[1] % Pow2(k)) * Pow2(16 - k)>>

\* (a + b) mod 2^32
WAdd(a, b) ==
    LET lo == a[2] + b[2]
    IN  <<(a[1] + b[1] + lo \div W16) % W16, lo % W16>>

\* (x * y) mod 2^16 for x, y < 2^16, without leaving 32 bits
MulMod16(x, y) == (((x \div 256) * y % 256) * 256 + (x % 256) * y) % W16

\* x * y as a word, for x, y < 2^16
Mul16(x, y) ==
    LET p1 == (x \div 256) * y
        p0 == (x % 256) * y
    IN  WAdd(<<p1 \div 256, (p1 % 256) * 256>>, <<p0 \div W16, p0 % W16>>)

\* Math.imul(a, b): the low 32 bits of the product
WMul(a, b) ==
    LET low   == Mul16(a[2], b[2])
        cross == (MulMod16(a[1], b[2]) + MulMod16(a[2], b[1])) % W16
    IN  <<(low[1] + cross) % W16, low[2]>>

\* a < b as unsigned numbers
WLess(a, b) == a[1] < b[1] \/ (a[1] = b[1] /\ a[2] < b[2])

(***************************************************************************)
(* SeededRNG (mulberry32).  The generator's state is its seed; only the    *)
(* seed modulo 2^32 reaches the bitwise operators, and that is kept.       *)
(***************************************************************************)
MULBERRY_INC == <<27947, 31221>>        \* 0x6d2b79f5

RngStep(seed) == WAdd(seed, MULBERRY_INC)

\* The 32-bit integer next() divides by 2^32, from the stepped seed t0
RngOut(t0) ==
    CHOOSE out \in
        {WXor(t2, WShr(t2, 14)) :
            t2 \in {WXor(t1, WAdd(t1, WMul(WXor(t1, WShr(t1, 7)), WOrLow(t1, 61)))) :
                       t1 \in {WMul(WXor(t0, WShr(t0, 15)), WOrLow(t0, 1))}}} : TRUE

\* Math.floor(next() * n) for the 32-bit output u and 0 < n < 2^15
ScaleFloor(u, n) == (u[1] * n + (u[2] * n) \div W16) \div W16


(***************************************************************************)
(* Types (types/index.ts)                                                  *)
(***************************************************************************)
Directions == {"UP", "DOWN", "LEFT", "RIGHT"}
Modes      == {"classic", "daily", "zen"}
Phases     == {"boot", "menu", "playing", "paused", "gameover"}
FoodTypes  == {"normal", "special", "speed", "slow"}

Vec(x, y) == [x |-> x, y |-> y]

DIRECTION_VECTORS(d) ==
    CASE d = "UP"    -> Vec(0, -1)
      [] d = "DOWN"  -> Vec(0, 1)
      [] d = "LEFT"  -> Vec(-1, 0)
      [] d = "RIGHT" -> Vec(1, 0)

OPPOSITE_DIRECTION(d) ==
    CASE d = "UP"    -> "DOWN"
      [] d = "DOWN"  -> "UP"
      [] d = "LEFT"  -> "RIGHT"
      [] d = "RIGHT" -> "LEFT"

(***************************************************************************)
(* Collision predicates (collision.ts)                                     *)
(***************************************************************************)
checkWallCollision(pos, gridWidth, gridHeight) ==
    pos.x < 0 \/ pos.x >= gridWidth \/ pos.y < 0 \/ pos.y >= gridHeight

\* head against body[skipFirst..] (0-based), i.e. body[skipFirst+1..] here
checkSelfCollision(head, body, skipFirst) ==
    \E i \in (skipFirst + 1)..Len(body) : body[i] = head

\* getNextHeadPosition stepping against the direction vector
getNextHeadPositionBackwards(current, direction) ==
    Vec(current.x - direction.x, current.y - direction.y)

getNextHeadPosition(current, direction) ==
    Vec(current.x + direction.x, current.y + direction.y)

\* JavaScript's % truncates toward zero; ((a % n) + n) % n is the floored modulo
JsRem(a, n) == IF a >= 0 THEN a % n ELSE -((-a) % n)

wrapPosition(pos, gridWidth, gridHeight) ==
    Vec(JsRem(JsRem(pos.x, gridWidth) + gridWidth, gridWidth),
        JsRem(JsRem(pos.y, gridHeight) + gridHeight, gridHeight))

(***************************************************************************)
(* Spawn system (spawn.ts)                                                 *)
(***************************************************************************)
SPECIAL_DURATION == 8000

\* roll < specialChance, < specialChance + speedChance, < ... + slowChance,
\* for roll = u / 2^32: the largest u below each threshold, plus one
SPECIAL_BAND == <<5242, 57672>>     \* 0.08 * 2^32 = 343597383.68
SPEED_BAND   == <<8519, 44565>>     \* 0.13 * 2^32 = 558345748.48
SLOW_BAND    == <<11796, 31458>>    \* 0.18 * 2^32 = 773094113.28

\* The cells of a column taken from the bottom up
CellAtBottomUp(k, gridHeight) ==
    Vec((k - 1) \div gridHeight, gridHeight - 1 - ((k - 1) % gridHeight))

\* The cells in the order the two loops visit them: x outer, y inner
CellAt(k, gridHeight) == Vec((k - 1) \div gridHeight, (k - 1) % gridHeight)

\* getEmptyCells that takes the head's cell for empty
getEmptyCellsBodyOnly(gridWidth, gridHeight, occupied) ==
    LET occupiedSet == {occupied[i] : i \in 2..Len(occupied)}
        all == [k \in 1..(gridWidth * gridHeight) |-> CellAt(k, gridHeight)]
        IsEmpty(c) == c \notin occupiedSet
    IN  SelectSeq(all, IsEmpty)

getEmptyCells(gridWidth, gridHeight, occupied) ==
    LET occupiedSet == {occupied[i] : i \in 1..Len(occupied)}
        all == [k \in 1..(gridWidth * gridHeight) |-> CellAt(k, gridHeight)]
        IsEmpty(c) == c \notin occupiedSet
    IN  SelectSeq(all, IsEmpty)

FoodTypeOf(roll, currentScore) ==
    IF currentScore > 30
    THEN IF WLess(roll, SPECIAL_BAND) THEN "special"
         ELSE IF WLess(roll, SPEED_BAND) THEN "speed"
         ELSE IF WLess(roll, SLOW_BAND) THEN "slow"
         ELSE "normal"
    ELSE "normal"

\* A food is a record; "no food" (null) is the empty sequence, a food f is <<f>>.
\* expiresAt is likewise <<>> (undefined) or <<t>>.
MkFood(pos, type, t) ==
    [x |-> pos.x, y |-> pos.y, type |-> type, spawnTime |-> t,
     expiresAt |-> IF type # "normal" THEN <<t + SPECIAL_DURATION>> ELSE <<>>]

\* spawnFood that draws the type roll above the score threshold only
spawnFoodRollAboveThreshold(seed, snake, gridWidth, gridHeight, currentScore, t) ==
    LET emptyCells == getEmptyCells(gridWidth, gridHeight, snake)
        s1   == RngStep(seed)
        pos  == emptyCells[ScaleFloor(RngOut(s1), Len(emptyCells)) + 1]
        s2   == RngStep(s1)
        type == FoodTypeOf(RngOut(s2), currentScore)
    IN  IF Len(emptyCells) = 0
        THEN [food |-> <<>>, rng |-> seed]
        ELSE IF currentScore > 30
        THEN [food |-> <<MkFood(pos, type, t)>>, rng |-> s2]
        ELSE [food |-> <<MkFood(pos, "normal", t)>>, rng |-> s1]

\* spawnFood: the food (or none) and the generator's state afterwards;
\* t is the performance.now() sample spawnFood takes
spawnFood(seed, snake, gridWidth, gridHeight, currentScore, t) ==
    CHOOSE spawned \in
        {IF Len(emptyCells) = 0
         THEN [food |-> <<>>, rng |-> seed]
         ELSE CHOOSE drawn \in
                  {[food |-> <<MkFood(emptyCells[ScaleFloor(u1, Len(emptyCells)) + 1],
                                      FoodTypeOf(RngOut(RngStep(RngStep(seed))),
                                                 currentScore), t)>>,
                    rng  |-> RngStep(RngStep(seed))] :
                      u1 \in {RngOut(RngStep(seed))}} : TRUE :
            emptyCells \in {getEmptyCells(gridWidth, gridHeight, snake)}} : TRUE

\* isFoodValid that ends the food at its expiry time already
isFoodValidUntilBefore(food, currentTime) ==
    ~(Len(food.expiresAt) > 0 /\ food.expiresAt[1] # 0
      /\ currentTime >= food.expiresAt[1])

isFoodValid(food, currentTime) ==
    ~(Len(food.expiresAt) > 0 /\ food.expiresAt[1] # 0
      /\ currentTime > food.expiresAt[1])

baseScores(foodType) ==
    CASE foodType = "normal"  -> 10
      [] foodType = "special" -> 50
      [] foodType = "speed"   -> 30
      [] foodType = "slow"    -> 20

\* getFoodScore with the bonus of the combo before the consumption
getFoodScoreOldCombo(foodType, combo) == baseScores(foodType) + (combo - 1) * 5

getFoodScore(foodType, combo) == baseScores(foodType) + combo * 5

(***************************************************************************)
(* Seeds (rng.ts).  A wall-clock reading is what Date.now() and new Date() *)
(* return: ms is Date.now() modulo 2^32, date is <<year, month, day>>.     *)
(***************************************************************************)
\* a << 5
WShl5(a) == <<(a[1] * 32 + a[2] \div 2048) % W16, (a[2] * 32) % W16>>

\* -a in two's complement
WNeg(a) == WAdd(<<65535 - a[1], 65535 - a[2]>>, <<0, 1>>)

Pad2(n) == <<48 + (n \div 10), 48 + (n % 10)>>

\* `daily-${year}${month}${day}` as character codes (4-digit years)
getDailySeed(date) ==
    <<100, 97, 105, 108, 121, 45>>
    \o <<48 + (date[1] \div 1000), 48 + ((date[1] \div 100) % 10)>>
    \o Pad2(date[1] % 100) \o Pad2(date[2]) \o Pad2(date[3])

RECURSIVE HashFrom(_, _, _)
HashFrom(hash, str, i) ==
    IF i > Len(str) THEN hash
    ELSE LET h == WAdd(WAdd(WShl5(hash), WNeg(hash)), <<0, str[i]>>)
         IN  \* the test has h computed before the recursion
             IF h[1] < W16 THEN HashFrom(h, str, i + 1) ELSE h

\* Math.abs of the 32-bit signed hash
hashString(str) ==
    LET hash == HashFrom(<<0, 0>>, str, 1)
    IN  IF hash[1] >= 32768 THEN WNeg(hash) ELSE hash

createDefaultRNG(wc) == wc.ms

(***************************************************************************)
(* Game engine (GameEngine.ts)                                             *)
(***************************************************************************)
COMBO_WINDOW_MS       == 2500
GRACE_PERIOD_TICKS    == 3
MIN_TICK_RATE         == 50
SPEED_INCREMENT_SCORE == 50
SPEED_INCREMENT_MS    == 3

BASE_TICK_RATES(mode) == IF mode = "zen" THEN 150 ELSE 100

Max(a, b) == IF a >= b THEN a ELSE b
Min(a, b) == IF a <= b THEN a ELSE b

VARIABLES
    state,      \* this.state: the GameState aggregate
    rng,        \* this.rng: the generator's seed
    store,      \* localStorage 'neonSnake_v1'.highScores: mode -> best score
    now,        \* the monotonic clock performance.now() reads
    ticks,      \* the tick calls made in phase playing since the last startGame
    loop        \* the refs of useGameLoop: accumulator, lastTime, isFirstFrame,
                \* and whether an animation frame is requested (rafRef)

vars == <<state, rng, store, now, ticks, loop>>

\* The events an operation emits are part of its result (the field events),
\* in the order of the emit calls.

PhaseChange(from, to) == [type |-> "PHASE_CHANGE", from |-> from, to |-> to]
Collision(reason)     == [type |-> "COLLISION", reason |-> reason]
SpeedChange(rate)     == [type |-> "SPEED_CHANGE", newTickRate |-> rate]
FoodEaten(t, sc, c)   == [type |-> "FOOD_EATEN", foodType |-> t, score |-> sc, combo |-> c]
TickEvent             == [type |-> "TICK"]
ComboBreak            == [type |-> "COMBO_BREAK"]

\* missing key => 0: a mode without an entry reads as 0
loadHighScore(st, mode) == st[mode]

\* saveHighScore without the Math.max
saveHighScoreOverwrite(st, mode, score) == [st EXCEPT ![mode] = score]

saveHighScore(st, mode, score) == [st EXCEPT ![mode] = Max(st[mode], score)]

createInitialState(st, wc) ==
    [phase            |-> "boot",
     mode             |-> "classic",
     score            |-> 0,
     highScore        |-> loadHighScore(st, "classic"),
     combo            |-> 0,
     lastEatTime      |-> 0,
     snake            |-> <<>>,
     direction        |-> "RIGHT",
     directionBuffer  |-> <<>>,
     food             |-> <<>>,
     gridWidth        |-> 20,
     gridHeight       |-> 20,
     tickRate         |-> BASE_TICK_RATES("classic"),
     baseTickRate     |-> BASE_TICK_RATES("classic"),
     tickCount        |-> 0,
     gracePeriodTicks |-> GRACE_PERIOD_TICKS,
     dailySeed        |-> getDailySeed(wc.date)]

\* startGame without the reset of the direction buffer
startGameKeepBuffer(s, mode, wc, st, t) ==
    LET seed   == IF mode = "daily"
                  THEN hashString(getDailySeed(wc.date))
                  ELSE createDefaultRNG(wc)
        startX == s.gridWidth \div 2
        startY == s.gridHeight \div 2
        snake  == <<Vec(startX, startY), Vec(startX - 1, startY),
                    Vec(startX - 2, startY)>>
        sp     == spawnFood(seed, snake, s.gridWidth, s.gridHeight, 0, t)
    IN  [state  |-> [s EXCEPT !.dailySeed = IF mode = "daily"
                                            THEN getDailySeed(wc.date) ELSE @,
                              !.mode = mode,
                              !.score = 0,
                              !.highScore = loadHighScore(st, mode),
                              !.combo = 0,
                              !.lastEatTime = 0,
                              !.direction = "RIGHT",
                              !.tickCount = 0,
                              !.gracePeriodTicks = GRACE_PERIOD_TICKS,
                              !.baseTickRate = BASE_TICK_RATES(mode),
                              !.tickRate = BASE_TICK_RATES(mode),
                              !.snake = snake,
                              !.food = sp.food,
                              !.phase = "playing"],
         rng    |-> sp.rng,
         events |-> <<PhaseChange(s.phase, "playing")>>]

\* startGame(mode): wc is the wall-clock reading that seeds the generator,
\* t the performance.now() sample of the first spawn
startGame(s, mode, wc, st, t) ==
    LET seed   == IF mode = "daily"
                  THEN hashString(getDailySeed(wc.date))
                  ELSE createDefaultRNG(wc)
        startX == s.gridWidth \div 2
        startY == s.gridHeight \div 2
        snake  == <<Vec(startX, startY), Vec(startX - 1, startY),
                    Vec(startX - 2, startY)>>
        sp     == spawnFood(seed, snake, s.gridWidth, s.gridHeight, 0, t)
    IN  [state  |-> [s EXCEPT !.dailySeed = IF mode = "daily"
                                            THEN getDailySeed(wc.date) ELSE @,
                              !.mode = mode,
                              !.score = 0,
                              !.highScore = loadHighScore(st, mode),
                              !.combo = 0,
                              !.lastEatTime = 0,
                              !.direction = "RIGHT",
                              !.directionBuffer = <<>>,
                              !.tickCount = 0,
                              !.gracePeriodTicks = GRACE_PERIOD_TICKS,
                              !.baseTickRate = BASE_TICK_RATES(mode),
                              !.tickRate = BASE_TICK_RATES(mode),
                              !.snake = snake,
                              !.food = sp.food,
                              !.phase = "playing"],
         rng    |-> sp.rng,
         events |-> <<PhaseChange(s.phase, "playing")>>]

goToMenu(s) ==
    [state  |-> [s EXCEPT !.phase = "menu"],
     events |-> <<PhaseChange(s.phase, "menu")>>]

\* pause without the test of the phase it leaves
pauseFromAnyPhase(s) ==
    IF s.phase # "paused"
    THEN [state  |-> [s EXCEPT !.phase = "paused"],
          events |-> <<PhaseChange(s.phase, "paused")>>]
    ELSE [state |-> s, events |-> <<>>]

pause(s) ==
    IF s.phase = "playing"
    THEN [state  |-> [s EXCEPT !.phase = "paused"],
          events |-> <<PhaseChange(s.phase, "paused")>>]
    ELSE [state |-> s, events |-> <<>>]

\* resume that also leaves gameover
resumeFromGameOver(s) ==
    IF s.phase \in {"paused", "gameover"}
    THEN [state  |-> [s EXCEPT !.phase = "playing"],
          events |-> <<PhaseChange(s.phase, "playing")>>]
    ELSE [state |-> s, events |-> <<>>]

resume(s) ==
    IF s.phase = "paused"
    THEN [state  |-> [s EXCEPT !.phase = "playing"],
          events |-> <<PhaseChange(s.phase, "playing")>>]
    ELSE [state |-> s, events |-> <<>>]

togglePause(s) ==
    IF s.phase = "playing" THEN pause(s)
    ELSE IF s.phase = "paused" THEN resume(s)
    ELSE [state |-> s, events |-> <<>>]

\* App's handlePause, the onPause of useInput
handlePause(s) == togglePause(s)

\* The getPhase of useInput: the engine's phase at the time of the call
getPhase(s) == s.phase

\* useInput's handler of visibilitychange; hidden is document.hidden
handleVisibilityChange(s, hidden) ==
    IF hidden /\ getPhase(s) = "playing"
    THEN handlePause(s)
    ELSE [state |-> s, events |-> <<>>]

\* handleBlur that calls onPause in any phase
handleBlurAnyPhase(s) == handlePause(s)

\* useInput's handler of the window's blur
handleBlur(s) ==
    IF getPhase(s) = "playing"
    THEN handlePause(s)
    ELSE [state |-> s, events |-> <<>>]

\* The reference direction taken from the current direction alone
refDirCurrent(s) == s.direction

\* The reference direction: the last buffered one, or the current one
refDir(s) ==
    IF Len(s.directionBuffer) > 0
    THEN s.directionBuffer[Len(s.directionBuffer)]
    ELSE s.direction

\* setDirection accepting a reversal
setDirectionAllowReverse(s, dir) ==
    LET s1 == IF s.phase # "playing" THEN s
              ELSE IF dir = refDir(s) THEN s
              ELSE IF Len(s.directionBuffer) < 2
              THEN [s EXCEPT !.directionBuffer = Append(@, dir)]
              ELSE s
    IN  [state |-> s1, events |-> <<>>]

\* setDirection buffering up to 3 inputs
setDirectionOffByOne(s, dir) ==
    LET s1 == IF s.phase # "playing" THEN s
              ELSE IF OPPOSITE_DIRECTION(dir) = refDir(s) THEN s
              ELSE IF dir = refDir(s) THEN s
              ELSE IF Len(s.directionBuffer) <= 2
              THEN [s EXCEPT !.directionBuffer = Append(@, dir)]
              ELSE s
    IN  [state |-> s1, events |-> <<>>]

setDirection(s, dir) ==
    LET s1 == IF s.phase # "playing" THEN s
              ELSE IF OPPOSITE_DIRECTION(dir) = refDir(s) THEN s
              ELSE IF dir = refDir(s) THEN s
              ELSE IF Len(s.directionBuffer) < 2
              THEN [s EXCEPT !.directionBuffer = Append(@, dir)]
              ELSE s
    IN  [state |-> s1, events |-> <<>>]

setGridSize(s, width, height) ==
    [state  |-> [s EXCEPT !.gridWidth = width, !.gridHeight = height],
     events |-> <<>>]

\* Within a tick the engine is the record c: its state, its generator, the
\* high-score store, the events emitted so far and the last clock sample.
Engine(s, seed, st, ev, t) ==
    [state |-> s, rng |-> seed, store |-> st, events |-> ev, now |-> t]

emit(c, e) == [c EXCEPT !.events = Append(@, e)]

\* this.state.food = spawnFood(this.rng, ...), sampling the clock at t
respawnFood(c, currentScore, t) ==
    CHOOSE r \in
        {[c EXCEPT !.state.food = sp.food, !.rng = sp.rng, !.now = t] :
            sp \in {spawnFood(c.rng, c.state.snake, c.state.gridWidth,
                              c.state.gridHeight, currentScore, t)}} : TRUE

\* gameOver leaving the game in play
gameOverStillPlaying(c, reason) ==
    emit(emit([c EXCEPT !.store = saveHighScore(@, c.state.mode, c.state.score)],
              Collision(reason)),
         PhaseChange(c.state.phase, "gameover"))

\* gameOver emitting the phase change before the collision
gameOverPhaseFirst(c, reason) ==
    emit(emit([c EXCEPT !.state.phase = "gameover",
                        !.store = saveHighScore(@, c.state.mode, c.state.score)],
              PhaseChange(c.state.phase, "gameover")),
         Collision(reason))

\* gameOver(reason)
gameOver(c, reason) ==
    emit(emit([c EXCEPT !.state.phase = "gameover",
                        !.store = saveHighScore(@, c.state.mode, c.state.score)],
              Collision(reason)),
         PhaseChange(c.state.phase, "gameover"))

\* The food-type effect without the floor of the speed food
foodEffectNoFloor(foodType, tickRate, baseTickRate) ==
    IF foodType = "speed" THEN tickRate - 20
    ELSE IF foodType = "slow" THEN Min(baseTickRate, tickRate + 30)
    ELSE tickRate

\* The food-type effect on the tick rate
foodEffect(foodType, tickRate, baseTickRate) ==
    IF foodType = "speed" THEN Max(MIN_TICK_RATE, tickRate - 20)
    ELSE IF foodType = "slow" THEN Min(baseTickRate, tickRate + 30)
    ELSE tickRate

\* The score ramp applied after a slow food as well
speedRampAlsoSlow(foodType, tickRate, baseTickRate, score) ==
    LET speedLevel     == score \div SPEED_INCREMENT_SCORE
        targetTickRate == Max(MIN_TICK_RATE,
                              baseTickRate - speedLevel * SPEED_INCREMENT_MS)
    IN  IF tickRate > targetTickRate
        THEN Max(targetTickRate, tickRate - 2)
        ELSE tickRate

\* The score ramp, applied to the rate the food-type effect left
speedRamp(foodType, tickRate, baseTickRate, score) ==
    LET speedLevel     == score \div SPEED_INCREMENT_SCORE
        targetTickRate == Max(MIN_TICK_RATE,
                              baseTickRate - speedLevel * SPEED_INCREMENT_MS)
    IN  IF foodType # "slow" /\ tickRate > targetTickRate
        THEN Max(targetTickRate, tickRate - 2)
        ELSE tickRate

\* eatFood that leaves the high score as it was
eatFoodScoredKeepsHighScore(c, foodType, combo, score, t) ==
    LET s    == c.state
        rate == foodEffect(foodType, s.tickRate, s.baseTickRate)
        c1   == [c EXCEPT !.state.combo = combo,
                          !.state.lastEatTime = t,
                          !.state.score = score,
                          !.state.tickRate =
                              speedRamp(foodType, rate, s.baseTickRate, score),
                          !.events =
                              (IF foodType = "speed"
                               THEN Append(@, SpeedChange(rate)) ELSE @)
                              \o <<FoodEaten(foodType, score, combo)>>]
    IN  respawnFood(c1, score, t)

\* eatFood() once the combo and the score are known
eatFoodScored(c, foodType, combo, score, t) ==
    LET s    == c.state
        rate == foodEffect(foodType, s.tickRate, s.baseTickRate)
        c1   == [c EXCEPT !.state.combo = combo,
                          !.state.lastEatTime = t,
                          !.state.score = score,
                          !.state.highScore = IF score > @ THEN score ELSE @,
                          !.state.tickRate =
                              speedRamp(foodType, rate, s.baseTickRate, score),
                          !.events =
                              (IF foodType = "speed"
                               THEN Append(@, SpeedChange(rate)) ELSE @)
                              \o <<FoodEaten(foodType, score, combo)>>]
    IN  CHOOSE r \in {respawnFood(eaten, score, t) : eaten \in {c1}} : TRUE

eatFoodCombo(c, foodType, combo, t) ==
    eatFoodScored(c, foodType, combo,
                  c.state.score + getFoodScore(foodType, combo), t)

\* eatFood(), called with the new head already prepended; t is the
\* performance.now() sample eatFood takes (and spawnFood after it)
eatFood(c, t) ==
    IF Len(c.state.food) = 0 THEN c
    ELSE eatFoodCombo(c, c.state.food[1].type,
                      IF t - c.state.lastEatTime < COMBO_WINDOW_MS
                      THEN c.state.combo + 1 ELSE 1,
                      t)

\* The combo check of tick, breaking the combo at the window's end already
comboExpirationAtWindow(c, t) ==
    IF c.state.combo > 0 /\ t - c.state.lastEatTime >= COMBO_WINDOW_MS
    THEN emit([c EXCEPT !.state.combo = 0], ComboBreak)
    ELSE c

\* tick: check combo expiration
comboExpiration(c, t) ==
    IF c.state.combo > 0 /\ t - c.state.lastEatTime > COMBO_WINDOW_MS
    THEN emit([c EXCEPT !.state.combo = 0], ComboBreak)
    ELSE c

\* The food check of tick, spawning also when there is no food
foodExpirationOrAbsent(c, t) ==
    IF Len(c.state.food) = 0 \/ ~isFoodValid(c.state.food[1], t)
    THEN respawnFood(c, c.state.score, t)
    ELSE c

\* tick: check food expiration
foodExpiration(c, t) ==
    IF Len(c.state.food) > 0 /\ ~isFoodValid(c.state.food[1], t)
    THEN respawnFood(c, c.state.score, t)
    ELSE c

\* tick: process direction buffer
processDirectionBuffer(c) ==
    IF Len(c.state.directionBuffer) > 0
    THEN [c EXCEPT
            !.state.directionBuffer = Tail(@),
            !.state.direction =
                IF OPPOSITE_DIRECTION(c.state.directionBuffer[1]) # @
                THEN c.state.directionBuffer[1] ELSE @]
    ELSE c

\* tick: calculate new head position
newHeadOf(s) ==
    IF s.mode = "zen"
    THEN wrapPosition(getNextHeadPosition(s.snake[1], DIRECTION_VECTORS(s.direction)),
                      s.gridWidth, s.gridHeight)
    ELSE getNextHeadPosition(s.snake[1], DIRECTION_VECTORS(s.direction))

\* moveSnake that applies the score ramp on every move
moveSnakeRampsEveryTick(c, newHead, t, j) ==
    LET eats   == /\ Len(c.state.food) > 0
                  /\ newHead.x = c.state.food[1].x
                  /\ newHead.y = c.state.food[1].y
        grown  == [c EXCEPT !.state.snake = <<newHead>> \o @]
        popped == [c EXCEPT !.state.snake =
                                <<newHead>> \o SubSeq(@, 1, Len(@) - 1)]
        count(d) == [d EXCEPT !.state.gracePeriodTicks =
                                  IF @ > 0 THEN @ - 1 ELSE @,
                              !.state.tickCount = @ + 1,
                              !.state.tickRate =
                                  speedRamp("normal", @, d.state.baseTickRate,
                                            d.state.score)]
    IN  emit(count(IF eats THEN eatFood(grown, t + j) ELSE popped), TickEvent)

\* moveSnake that drops the tail on every move
moveSnakeAlwaysPop(c, newHead, t, j) ==
    LET eats   == /\ Len(c.state.food) > 0
                  /\ newHead.x = c.state.food[1].x
                  /\ newHead.y = c.state.food[1].y
        popped == [c EXCEPT !.state.snake =
                                <<newHead>> \o SubSeq(@, 1, Len(@) - 1)]
        count(d) == [d EXCEPT !.state.gracePeriodTicks =
                                  IF @ > 0 THEN @ - 1 ELSE @,
                              !.state.tickCount = @ + 1]
    IN  emit(count(IF eats THEN eatFood(popped, t + j) ELSE popped), TickEvent)

\* tick: move snake, check food collision, decrease grace period, count
moveSnake(c, newHead, t, j) ==
    LET eats   == /\ Len(c.state.food) > 0
                  /\ newHead.x = c.state.food[1].x
                  /\ newHead.y = c.state.food[1].y
        grown  == [c EXCEPT !.state.snake = <<newHead>> \o @]
        popped == [c EXCEPT !.state.snake =
                                <<newHead>> \o SubSeq(@, 1, Len(@) - 1)]
        count(d) == [d EXCEPT !.state.gracePeriodTicks =
                                  IF @ > 0 THEN @ - 1 ELSE @,
                              !.state.tickCount = @ + 1]
    IN  emit(count(IF eats THEN eatFood(grown, t + j) ELSE popped), TickEvent)

\* handleCollision that lets a zen snake move through itself
handleCollisionZenMovesOn(c, newHead, wallHit, selfHit, t, j) ==
    IF (wallHit \/ selfHit) /\ ~(c.state.mode = "zen" /\ selfHit)
    THEN IF c.state.gracePeriodTicks > 0
         THEN emit([c EXCEPT !.state.gracePeriodTicks = @ - 1], TickEvent)
         ELSE gameOver(c, IF wallHit THEN "wall" ELSE "self")
    ELSE moveSnake(c, newHead, t, j)

\* handleCollision that absorbs a hit without spending a grace tick
handleCollisionKeepGrace(c, newHead, wallHit, selfHit, t, j) ==
    IF wallHit \/ selfHit
    THEN IF c.state.gracePeriodTicks > 0 \/ (c.state.mode = "zen" /\ selfHit)
         THEN emit(c, TickEvent)
         ELSE gameOver(c, IF wallHit THEN "wall" ELSE "self")
    ELSE moveSnake(c, newHead, t, j)

\* handleCollision without the grace period
handleCollisionNoGrace(c, newHead, wallHit, selfHit, t, j) ==
    IF wallHit \/ selfHit
    THEN IF c.state.mode = "zen" /\ selfHit
         THEN emit([c EXCEPT !.state.gracePeriodTicks = @ - 1], TickEvent)
         ELSE gameOver(c, IF wallHit THEN "wall" ELSE "self")
    ELSE moveSnake(c, newHead, t, j)

\* handleCollision that absorbs a hit during the grace period only
handleCollisionGraceOnly(c, newHead, wallHit, selfHit, t, j) ==
    IF wallHit \/ selfHit
    THEN IF c.state.gracePeriodTicks > 0
         THEN emit([c EXCEPT !.state.gracePeriodTicks = @ - 1], TickEvent)
         ELSE gameOver(c, IF wallHit THEN "wall" ELSE "self")
    ELSE moveSnake(c, newHead, t, j)

\* tick: check collisions, handle collision
handleCollision(c, newHead, wallHit, selfHit, t, j) ==
    IF wallHit \/ selfHit
    THEN IF c.state.gracePeriodTicks > 0 \/ (c.state.mode = "zen" /\ selfHit)
         THEN emit([c EXCEPT !.state.gracePeriodTicks = @ - 1], TickEvent)
         ELSE gameOver(c, IF wallHit THEN "wall" ELSE "self")
    ELSE moveSnake(c, newHead, t, j)

checkCollisions(c, newHead, t, j) ==
    handleCollision(c, newHead,
                    checkWallCollision(newHead, c.state.gridWidth,
                                       c.state.gridHeight),
                    checkSelfCollision(newHead, c.state.snake, 1),
                    t, j)

moveHead(c, t, j) == checkCollisions(c, newHeadOf(c.state), t, j)

\* tick that also runs while the game is paused
tickWhilePaused(s, seed, st, t, j) ==
    IF s.phase \notin {"playing", "paused"}
    THEN Engine(s, seed, st, <<>>, t)
    ELSE moveHead(processDirectionBuffer(
                      foodExpiration(
                          comboExpiration(Engine(s, seed, st, <<>>, t), t), t)),
                  t, j)

\* tick(deltaMs).  t is the performance.now() sample the tick takes, j the
\* time that passes before eatFood takes its own sample.  deltaMs only drives
\* the screen shake and the particles, which are not part of the game state.
tick(s, seed, st, t, j) ==
    IF s.phase # "playing"
    THEN Engine(s, seed, st, <<>>, t)
    ELSE moveHead(processDirectionBuffer(
                      foodExpiration(
                          comboExpiration(Engine(s, seed, st, <<>>, t), t), t)),
                  t, j)

(***************************************************************************)
(* The bounds of the model, and the inputs the operations draw from.       *)
(***************************************************************************)
MaxTicks   == 4     \* tick calls per game
MaxNow     == 2501  \* the clock stops here
MaxJitter  == 0     \* ms between two clock samples of one tick, and in all
                    \* between two pauses
TimeStep   == 2501  \* ms of a pause between two calls

\* setGridSize arguments
GridSizes == {<<4, 3>>}

\* wall-clock readings at a startGame or at construction
WallClocks == {[ms |-> <<0, 1>>, date |-> <<2024, 1, 15>>]}

\* time that passes between two calls
Deltas == {TimeStep}

\* what the high-score store holds when the engine is constructed
InitialStores == {[classic |-> 0, daily |-> 40, zen |-> 0]}

(***************************************************************************)
(* The state machine: one action per public operation.                     *)
(***************************************************************************)
\* The refs of useGameLoop when the hook is mounted
useGameLoopRefs ==
    [accumulator |-> 0, lastTime |-> 0, isFirstFrame |-> TRUE, raf |-> FALSE]

Init ==
    /\ loop = useGameLoopRefs
    /\ store \in InitialStores
    /\ \E wc \in WallClocks :
          /\ rng = createDefaultRNG(wc)
          /\ state = createInitialState(store, wc)
    /\ now = 0
    /\ ticks = 0

SetGridSize(w, h) ==
    /\ state' = setGridSize(state, w, h).state
    /\ UNCHANGED <<rng, store, now, ticks, loop>>

StartGame(mode, wc) ==
    LET r == startGame(state, mode, wc, store, now)
    IN  /\ state' = r.state
        /\ rng' = r.rng
        /\ ticks' = 0
        /\ UNCHANGED <<store, now, loop>>

GoToMenu ==
    /\ state' = goToMenu(state).state
    /\ UNCHANGED <<rng, store, now, ticks, loop>>

Pause ==
    /\ state' = pause(state).state
    /\ UNCHANGED <<rng, store, now, ticks, loop>>

Resume ==
    /\ state' = resume(state).state
    /\ UNCHANGED <<rng, store, now, ticks, loop>>

TogglePause ==
    /\ state' = togglePause(state).state
    /\ UNCHANGED <<rng, store, now, ticks, loop>>

HandleVisibilityChange(hidden) ==
    /\ state' = handleVisibilityChange(state, hidden).state
    /\ UNCHANGED <<rng, store, now, ticks, loop>>

HandleBlur ==
    /\ state' = handleBlur(state).state
    /\ UNCHANGED <<rng, store, now, ticks, loop>>

SetDirection(dir) ==
    /\ state' = setDirection(state, dir).state
    /\ UNCHANGED <<rng, store, now, ticks, loop>>

Tick(j) ==
    LET r == tick(state, rng, store, now, j)
    IN  /\ state' = r.state
        /\ rng' = r.rng
        /\ store' = r.store
        /\ now' = r.now
        /\ ticks' = IF state.phase = "playing" THEN ticks + 1 ELSE ticks
        /\ UNCHANGED loop

\* Time passes between two calls
Advance(d) ==
    /\ now' = now + d
    /\ UNCHANGED <<state, rng, store, ticks, loop>>

\* The model stops ticking a game after maxTicks calls
CanTick(maxTicks) == state.phase = "playing" => ticks < maxTicks

\* A combo or an expiring food is pending: until then no decision of the
\* engine depends on how much time has passed
TimerPending ==
    /\ state.phase \in {"playing", "paused"}
    /\ \/ state.combo > 0
       \/ Len(state.food) > 0 /\ Len(state.food[1].expiresAt) > 0

\* Games on the grids of GridSizes, sized before the game starts
Next ==
    \/ \E g \in GridSizes :
          state.phase \notin {"playing", "paused"} /\ SetGridSize(g[1], g[2])
    \/ \E m \in Modes, wc \in WallClocks :
          <<state.gridWidth, state.gridHeight>> \in GridSizes /\ StartGame(m, wc)
    \/ GoToMenu
    \/ Pause
    \/ Resume
    \/ TogglePause
    \/ \E dir \in Directions : SetDirection(dir)
    \/ \E j \in 0..MaxJitter :
          CanTick(MaxTicks) /\ (now % TimeStep) + j <= MaxJitter /\ Tick(j)
    \/ \E d \in Deltas : TimerPending /\ now + d <= MaxNow /\ Advance(d)

Spec == Init /\ [][Next]_vars

\* Classic games on the grid the engine is constructed with (20 x 20)
NextDefault ==
    \/ \E wc \in WallClocks : StartGame("classic", wc)
    \/ GoToMenu
    \/ TogglePause
    \/ \E dir \in Directions : SetDirection(dir)
    \/ CanTick(MaxTicks) /\ Tick(0)

SpecDefault == Init /\ [][NextDefault]_vars

(***************************************************************************)
(* Games in progress.  The states below are those of a game that has eaten *)
(* a given series of foods: score, combo and tick rate are what eatFood    *)
(* made of the series, and the snake has one segment per food on top of   *)
(* its first three.  The snake lies along the rows of the grid, turning at *)
(* the end of each row, with the next food on the cell in front of it.     *)
(***************************************************************************)
MaxEatTicks == 2    \* tick calls on a game in progress

\* the grid of the games in progress, and the grids a resize makes of it
LaneGrid == <<4, 3>>

ResizedGrids == {<<5, 3>>, <<4, 2>>}

\* the foods a game in progress has eaten, oldest first
EatHistories ==
    {<<>>,
     <<"normal">>,
     <<"normal", "normal">>,
     <<"normal", "normal", "normal">>,
     <<"normal", "normal", "special">>,
     <<"normal", "normal", "slow">>,
     <<"normal", "normal", "speed">>,
     <<"normal", "normal", "speed", "slow">>,
     <<"normal", "normal", "speed", "speed">>,
     <<"normal", "normal", "speed", "speed", "speed">>,
     <<"normal", "normal", "speed", "speed", "speed", "speed", "speed">>,
     <<"normal", "normal", "normal", "normal", "normal", "normal", "normal",
       "normal">>}

\* ms between the last consumption and the next tick
EatGaps == {1, COMBO_WINDOW_MS, COMBO_WINDOW_MS + 1}

\* The k-th cell of the path along the rows of a grid of width w
Lane(k, w) ==
    Vec(IF ((k - 1) \div w) % 2 = 0 THEN (k - 1) % w ELSE w - 1 - ((k - 1) % w),
        (k - 1) \div w)

\* The direction of the move from a cell to the cell next to it
DirectionTo(a, b) ==
    CHOOSE d \in Directions : getNextHeadPosition(a, DIRECTION_VECTORS(d)) = b

\* What eatFood leaves of score, combo and tick rate.  chained: the food is
\* eaten within the combo window of the one before.  legal: every food that
\* is not normal was spawned at a score above 30.
afterEatScored(a, foodType, combo, score, baseTickRate) ==
    [score    |-> score,
     combo    |-> combo,
     tickRate |-> speedRamp(foodType,
                            foodEffect(foodType, a.tickRate, baseTickRate),
                            baseTickRate, score),
     legal    |-> a.legal /\ (foodType = "normal" \/ a.score > 30)]

afterEatCombo(a, foodType, combo, baseTickRate) ==
    afterEatScored(a, foodType, combo, a.score + getFoodScore(foodType, combo),
                   baseTickRate)

RECURSIVE afterEats(_, _, _)
afterEats(h, chained, baseTickRate) ==
    IF Len(h) = 0
    THEN [score |-> 0, combo |-> 0, tickRate |-> baseTickRate, legal |-> TRUE]
    ELSE afterEatCombo(afterEats(SubSeq(h, 1, Len(h) - 1), chained, baseTickRate),
                       h[Len(h)],
                       IF chained /\ Len(h) > 1 THEN Len(h) ELSE 1,
                       baseTickRate)

\* The state of a game of the given mode after the foods of h, with a food
\* of type pending in front of the snake's head
midGameState(s, mode, a, n, pending, lastEat) ==
    [s EXCEPT !.phase = "playing",
              !.mode = mode,
              !.score = a.score,
              !.highScore = Max(@, a.score),
              !.combo = a.combo,
              !.lastEatTime = lastEat,
              !.snake = [i \in 1..n |-> Lane(n + 1 - i, LaneGrid[1])],
              !.direction = DirectionTo(Lane(n - 1, LaneGrid[1]),
                                        Lane(n, LaneGrid[1])),
              !.directionBuffer =
                  IF DirectionTo(Lane(n, LaneGrid[1]), Lane(n + 1, LaneGrid[1]))
                         = DirectionTo(Lane(n - 1, LaneGrid[1]),
                                       Lane(n, LaneGrid[1]))
                  THEN <<>>
                  ELSE <<DirectionTo(Lane(n, LaneGrid[1]),
                                     Lane(n + 1, LaneGrid[1]))>>,
              !.food = <<MkFood(Lane(n + 1, LaneGrid[1]), pending, lastEat)>>,
              !.gridWidth = LaneGrid[1],
              !.gridHeight = LaneGrid[2],
              !.tickRate = a.tickRate,
              !.baseTickRate = BASE_TICK_RATES(mode),
              !.tickCount = n,
              !.gracePeriodTicks = 0]

InitEat ==
    /\ loop = useGameLoopRefs
    /\ store \in InitialStores
    /\ ticks = 0
    /\ \E wc \in WallClocks, mode \in Modes, h \in EatHistories,
          chained \in BOOLEAN, pending \in FoodTypes, gap \in EatGaps :
          /\ afterEats(h, chained, BASE_TICK_RATES(mode)).legal
          /\ pending = "normal"
                \/ afterEats(h, chained, BASE_TICK_RATES(mode)).score > 30
          /\ rng = createDefaultRNG(wc)
          /\ now = (IF Len(h) = 0 THEN 0 ELSE TimeStep) + gap
          /\ state = midGameState(
                         [createInitialState(store, wc) EXCEPT
                              !.highScore = loadHighScore(store, mode)],
                         mode, afterEats(h, chained, BASE_TICK_RATES(mode)),
                         3 + Len(h), pending,
                         IF Len(h) = 0 THEN 0 ELSE TimeStep)

\* The snake leaves at most two cells of the grid free
NearlyFull(s) == Len(s.snake) + 2 >= s.gridWidth * s.gridHeight

\* A game in progress: turns and ticks and, for a game whose grid is nearly
\* full, one resize of the grid and the time it takes a food to expire
NextEat ==
    \/ \E dir \in Directions : SetDirection(dir)
    \/ CanTick(MaxEatTicks) /\ Tick(0)
    \/ \E g \in ResizedGrids :
          /\ state.phase = "playing"
          /\ <<state.gridWidth, state.gridHeight>> = LaneGrid
          /\ NearlyFull(state)
          /\ SetGridSize(g[1], g[2])
    \/ /\ state.phase = "playing"
       /\ NearlyFull(state)
       /\ Len(state.food) > 0
       /\ Len(state.food[1].expiresAt) > 0
       /\ isFoodValid(state.food[1], now)
       /\ Advance(SPECIAL_DURATION)

SpecEat == InitEat /\ [][NextEat]_vars

\* A game in progress that is left to run: ticks, and the time it takes a
\* food to expire
NextCoast ==
    \/ CanTick(MaxEatTicks) /\ Tick(0)
    \/ /\ state.phase = "playing"
       /\ Len(state.food) > 0
       /\ Len(state.food[1].expiresAt) > 0
       /\ isFoodValid(state.food[1], now)
       /\ Advance(SPECIAL_DURATION)

SpecCoast == InitEat /\ [][NextCoast]_vars

\* Games in progress that are ticked and steered, and started again once
\* they are over
NextRestart ==
    \/ \E m \in Modes, wc \in WallClocks :
          state.phase = "gameover" /\ StartGame(m, wc)
    \/ \E dir \in Directions : SetDirection(dir)
    \/ CanTick(MaxEatTicks) /\ Tick(0)

SpecRestart == InitEat /\ [][NextRestart]_vars

\* Games played from their start on small grids, sized before the game
MaxPlayTicks == 6   \* tick calls per game

PlayGrids == {<<4, 2>>, <<4, 3>>}

NextPlay ==
    \/ \E g \in PlayGrids :
          state.phase \notin {"playing", "paused"} /\ SetGridSize(g[1], g[2])
    \/ \E m \in Modes, wc \in WallClocks :
          /\ state.phase \notin {"playing", "paused"}
          /\ <<state.gridWidth, state.gridHeight>> \in PlayGrids
          /\ StartGame(m, wc)
    \/ \E dir \in Directions : SetDirection(dir)
    \/ CanTick(MaxPlayTicks) /\ Tick(0)

SpecPlay == Init /\ [][NextPlay]_vars

MaxBlurTicks == 2   \* tick calls on a game that loses the focus

\* Games in progress whose window loses the focus and whose document is
\* hidden and shown, with the pause key pressed now and then
NextInput ==
    \/ HandleBlur
    \/ \E hidden \in BOOLEAN : HandleVisibilityChange(hidden)
    \/ TogglePause
    \/ CanTick(MaxBlurTicks) /\ Tick(0)

SpecInput == InitEat /\ [][NextInput]_vars

(***************************************************************************)
(* useGameLoop: the driver that turns animation frames into engine ticks.  *)
(* A callback is an operator from the refs, the engine and the frame's     *)
(* timestamp to the refs and the engine it leaves, the tick calls it made  *)
(* and the alpha it rendered with (none for a callback that renders        *)
(* nothing).                                                               *)
(***************************************************************************)
MAX_FRAME_DELTA == 250

MaxLoopNow == 3100    \* the clock of a driven game stops here

\* ms between two animation frames
FrameDeltas == {190, 300}

\* One engine.tick(d) call of the loop: the accumulator, the engine's tick
\* rate and its phase when the call is made, and the d it passes
TickCall(acc, e, d) ==
    [accumulator |-> acc, tickRate |-> e.state.tickRate,
     phase |-> e.state.phase, d |-> d]

\* while (accumulator >= tickRate) { engine.tick(tickRate); accumulator -= tickRate }
\* with the tickRate read before the loop
RECURSIVE fixedTimestepUpdates(_, _, _, _, _)
fixedTimestepUpdates(e, acc, tickRate, calls, t) ==
    IF acc >= tickRate
    THEN fixedTimestepUpdates(tick(e.state, e.rng, e.store, t, 0),
                              acc - tickRate, tickRate,
                              Append(calls, TickCall(acc, e, tickRate)), t)
    ELSE [engine |-> e, accumulator |-> acc, calls |-> calls]

\* The callback from the phase test on, with the phase test left out of the
\* accumulation
runGameLogicAccumulatesPaused(lp, e, cappedDelta, tickRate, timestamp) ==
    IF e.state.phase = "playing"
    THEN fixedTimestepUpdates(e, lp.accumulator + cappedDelta, tickRate,
                              <<>>, timestamp)
    ELSE [engine |-> e, accumulator |-> lp.accumulator + cappedDelta,
          calls |-> <<>>]

\* The callback from the phase test on: game logic only when playing
runGameLogic(lp, e, cappedDelta, tickRate, timestamp) ==
    IF e.state.phase = "playing"
    THEN fixedTimestepUpdates(e, lp.accumulator + cappedDelta, tickRate,
                              <<>>, timestamp)
    ELSE [engine |-> e, accumulator |-> lp.accumulator, calls |-> <<>>]

\* The callback's end: alpha from the tickRate read before the loop, the
\* render, and the request of the next frame
renderFrame(lp, upd, tickRate, timestamp) ==
    [loop   |-> [lp EXCEPT !.lastTime = timestamp,
                           !.accumulator = upd.accumulator,
                           !.raf = TRUE],
     engine |-> upd.engine,
     calls  |-> upd.calls,
     alpha  |-> <<[accumulator |-> upd.accumulator, tickRate |-> tickRate]>>]

\* The callback of a frame that is not the first
runFrame(lp, e, timestamp) ==
    renderFrame(lp,
                runGameLogic(lp, e, Min(timestamp - lp.lastTime, MAX_FRAME_DELTA),
                             e.state.tickRate, timestamp),
                e.state.tickRate, timestamp)

\* The callback of a first frame: sync time
syncFrame(lp, e, timestamp) ==
    [loop   |-> [lp EXCEPT !.lastTime = timestamp,
                           !.accumulator = 0,
                           !.isFirstFrame = FALSE,
                           !.raf = TRUE],
     engine |-> e,
     calls  |-> <<>>,
     alpha  |-> <<>>]

\* loop(timestamp) that runs the first frame like every other
loopWithoutSync(lp, e, timestamp) ==
    runFrame([lp EXCEPT !.isFirstFrame = FALSE], e, timestamp)

\* loop(timestamp)
loopCallback(lp, e, timestamp) ==
    IF lp.isFirstFrame
    THEN syncFrame(lp, e, timestamp)
    ELSE runFrame(lp, e, timestamp)

\* start()
loopStart(lp) == [lp EXCEPT !.isFirstFrame = TRUE, !.raf = TRUE]

\* stop()
loopStop(lp) == [lp EXCEPT !.raf = FALSE]

\* reset()
loopReset(lp) == [lp EXCEPT !.accumulator = 0, !.isFirstFrame = TRUE]

LoopStart ==
    /\ loop' = loopStart(loop)
    /\ UNCHANGED <<state, rng, store, now, ticks>>

LoopStop ==
    /\ loop' = loopStop(loop)
    /\ UNCHANGED <<state, rng, store, now, ticks>>

LoopReset ==
    /\ loop' = loopReset(loop)
    /\ UNCHANGED <<state, rng, store, now, ticks>>

\* The animation frame d ms after the last call
LoopFrame(d) ==
    LET r == loopCallback(loop, Engine(state, rng, store, <<>>, now + d), now + d)
    IN  /\ loop' = r.loop
        /\ state' = r.engine.state
        /\ rng' = r.engine.rng
        /\ store' = r.engine.store
        /\ now' = now + d
        /\ ticks' = ticks + Cardinality({i \in 1..Len(r.calls) :
                                            r.calls[i].phase = "playing"})

\* A driven game: one in progress, one millisecond after its last food
InitLoop == InitEat /\ now = TimeStep + 1

NextLoop ==
    \/ ~loop.raf /\ LoopStart
    \/ loop.raf /\ LoopStop
    \/ LoopReset
    \/ TogglePause
    \/ \E d \in FrameDeltas : loop.raf /\ now + d <= MaxLoopNow /\ LoopFrame(d)

SpecLoop == InitLoop /\ [][NextLoop]_vars

\* Turns reach the engine only during the first moves of a game
MaxSteerTicks == 2

\* One tick of a game that is left to run for as long as it is playing
TickOn ==
    /\ state.phase = "playing"
    /\ \E r \in {tick(state, rng, store, now, 0)} :
          /\ state' = r.state
          /\ rng' = r.rng
          /\ store' = r.store
          /\ now' = r.now
    /\ UNCHANGED <<ticks, loop>>

\* Classic and daily games on a fixed grid, started from the menu or after a
\* game over, steered during their first moves and then left to run
NextRun ==
    \/ \E g \in GridSizes :
          state.phase \notin {"playing", "paused"} /\ SetGridSize(g[1], g[2])
    \/ \E m \in {"classic", "daily"}, wc \in WallClocks :
          /\ state.phase \notin {"playing", "paused"}
          /\ <<state.gridWidth, state.gridHeight>> \in GridSizes
          /\ StartGame(m, wc)
    \/ \E dir \in Directions :
          state.tickCount < MaxSteerTicks /\ SetDirection(dir)
    \/ TickOn

\* The driver delivers a tick on every frame of a playing game
SpecRun == Init /\ [][NextRun]_vars /\ WF_vars(TickOn)

(***************************************************************************)
(* Properties of the engine's operations.  Those about one call are state  *)
(* predicates: in every reachable state, the call's result is as stated.   *)
(***************************************************************************)
NoOp(r, s) == r.state = s /\ r.events = <<>>

\* C1: in every phase other than playing, tick leaves the whole engine
\* state (and the generator and the store) unchanged and emits no event.
C1_TickOutsidePlayingIsNoOp ==
    state.phase # "playing" =>
        \A j \in 0..MaxJitter :
            LET r == tick(state, rng, store, now, j)
            IN  NoOp(r, state) /\ r.rng = rng /\ r.store = store

\* A paused game with a direction pending: a tick would move the snake
C1_Witness ==
    /\ state.phase = "paused"
    /\ ticks > 0
    /\ Len(state.directionBuffer) > 0
    /\ tick(state, rng, store, now, 0).state.snake = state.snake

\* The phase edges of the state diagram
DiagramEdges ==
    {<<"boot", "menu">>, <<"menu", "playing">>, <<"playing", "menu">>,
     <<"playing", "paused">>, <<"paused", "playing">>,
     <<"playing", "gameover">>, <<"gameover", "menu">>,
     <<"gameover", "playing">>}

\* C2, as stated: every change of phase follows an edge of the diagram.
C2_OnlyDiagramEdges ==
    [][state.phase' # state.phase
         => <<state.phase, state.phase'>> \in DiagramEdges]_vars

\* C2, amended: every change of phase follows an edge of the diagram or one
\* of paused -> menu (goToMenu while paused) and boot -> playing (startGame
\* before the menu was entered).
C2_PhaseEdges ==
    [][state.phase' # state.phase
         => <<state.phase, state.phase'>>
               \in DiagramEdges \cup {<<"paused", "menu">>, <<"boot", "playing">>}]_vars

\* The menu, entered after a game that was played to its end
C2_Witness ==
    /\ state.phase = "menu"
    /\ ticks = MaxTicks
    /\ store["classic"] > 0

\* r is the transition from phase from to phase to, and nothing else
OnlyPhase(r, s, from, to) ==
    /\ r.state = [s EXCEPT !.phase = to]
    /\ r.events = <<PhaseChange(from, to)>>

\* C3: pause acts only in playing (-> paused), resume only in paused
\* (-> playing), togglePause does whichever applies; in any other phase each
\* is a no-op without event; a transition changes only the phase and emits
\* exactly one PHASE_CHANGE{from, to}.
C3_PauseResume ==
    /\ IF state.phase = "playing"
       THEN /\ OnlyPhase(pause(state), state, "playing", "paused")
            /\ OnlyPhase(togglePause(state), state, "playing", "paused")
            /\ NoOp(resume(state), state)
       ELSE IF state.phase = "paused"
       THEN /\ OnlyPhase(resume(state), state, "paused", "playing")
            /\ OnlyPhase(togglePause(state), state, "paused", "playing")
            /\ NoOp(pause(state), state)
       ELSE /\ NoOp(pause(state), state)
            /\ NoOp(resume(state), state)
            /\ NoOp(togglePause(state), state)

\* A paused game with a score, still in its grace period, that resume continues
C3_Witness ==
    /\ state.phase = "paused"
    /\ state.score > 0
    /\ state.gracePeriodTicks > 0
    /\ resume(state).state.phase = "playing"

\* C4: setDirection(dir) is a no-op without event when the phase is not
\* playing, or dir is the opposite of the reference direction (the last
\* buffered one, or the current one when none is buffered), or dir is the
\* reference direction; otherwise, with fewer than 2 directions pending, dir
\* is appended at the end of the buffer.
C4_SetDirection ==
    \A dir \in Directions :
        LET r   == setDirection(state, dir)
            buf == state.directionBuffer
            ref == IF buf # <<>> THEN buf[Len(buf)] ELSE state.direction
            rejected == \/ state.phase # "playing"
                        \/ OPPOSITE_DIRECTION(dir) = ref
                        \/ dir = ref
        IN  /\ r.events = <<>>
            /\ rejected => r.state = state
            /\ ~rejected /\ Len(buf) < 2
                 => r.state = [state EXCEPT !.directionBuffer = buf \o <<dir>>]

\* One direction pending that differs from the current one and is not its
\* opposite: the current direction is accepted, the pending one's opposite is not
C4_Witness ==
    /\ state.phase = "playing"
    /\ Len(state.directionBuffer) = 1
    /\ state.directionBuffer[1] \notin
           {state.direction, OPPOSITE_DIRECTION(state.direction)}
    /\ setDirection(state, state.direction).state.directionBuffer
           = <<state.directionBuffer[1], state.direction>>

\* C5: the direction buffer never holds more than 2 directions; a
\* setDirection with 2 pending is dropped and leaves them as they are; a tick
\* in playing removes the oldest pending direction and no other.
C5_BufferCap ==
    /\ Len(state.directionBuffer) <= 2
    /\ Len(state.directionBuffer) = 2
         => \A dir \in Directions : NoOp(setDirection(state, dir), state)
    /\ state.phase = "playing"
         => \A j \in 0..MaxJitter :
               tick(state, rng, store, now, j).state.directionBuffer
                   = IF state.directionBuffer = <<>> THEN <<>>
                     ELSE Tail(state.directionBuffer)

\* Two directions pending, and one more would be acceptable but for the cap
C5_Witness ==
    /\ state.phase = "playing"
    /\ Len(state.directionBuffer) = 2
    /\ \E dir \in Directions :
          /\ dir # state.directionBuffer[2]
          /\ OPPOSITE_DIRECTION(dir) # state.directionBuffer[2]
          /\ setDirection(state, dir).state.directionBuffer = state.directionBuffer

\* C6: from any phase and any prior state, startGame(mode) yields phase
\* playing, score 0, combo 0, direction RIGHT, an empty buffer, tickCount 0,
\* gracePeriodTicks 3, tickRate = baseTickRate = 100 (classic, daily) or 150
\* (zen), the snake (w/2, h/2), (w/2 - 1, h/2), (w/2 - 2, h/2) (integer
\* halves), and emits exactly one PHASE_CHANGE{from: previous phase, to: playing}.
C6_StartGame ==
    \A mode \in Modes, wc \in WallClocks :
        LET r  == startGame(state, mode, wc, store, now)
            s  == r.state
            cx == state.gridWidth \div 2
            cy == state.gridHeight \div 2
            rate == IF mode = "zen" THEN 150 ELSE 100
        IN  /\ s.phase = "playing" /\ s.mode = mode
            /\ s.score = 0 /\ s.combo = 0
            /\ s.direction = "RIGHT" /\ s.directionBuffer = <<>>
            /\ s.tickCount = 0 /\ s.gracePeriodTicks = 3
            /\ s.tickRate = rate /\ s.baseTickRate = rate
            /\ s.snake = <<[x |-> cx, y |-> cy], [x |-> cx - 1, y |-> cy],
                           [x |-> cx - 2, y |-> cy]>>
            /\ r.events = <<[type |-> "PHASE_CHANGE", from |-> state.phase,
                             to |-> "playing"]>>

\* A paused game with a score, a combo, a longer snake, a spent grace period
\* and a pending direction, from which startGame starts afresh
C6_Witness ==
    /\ state.phase = "paused"
    /\ state.score > 0 /\ state.combo > 0
    /\ Len(state.snake) > 3
    /\ state.gracePeriodTicks = 0
    /\ state.direction # "RIGHT"
    /\ state.directionBuffer # <<>>
    /\ startGame(state, "zen", CHOOSE wc \in WallClocks : TRUE, store, now).state.tickRate = 150

\* C7: after startGame('classic') on a 20 x 20 grid the snake is (10,10),
\* (9,10), (8,10), the direction RIGHT, the score 0 and the tick rate 100; one
\* tick with no input and no food at (11,10) then yields the snake (11,10),
\* (10,10), (9,10).  (Checked on the games of SpecDefault.)
C7_FirstTick ==
    state.phase = "playing" /\ ticks = 0
      => /\ state.gridWidth = 20 /\ state.gridHeight = 20
         /\ state.snake = <<[x |-> 10, y |-> 10], [x |-> 9, y |-> 10],
                            [x |-> 8, y |-> 10]>>
         /\ state.direction = "RIGHT"
         /\ state.score = 0
         /\ state.tickRate = 100
         /\ (/\ state.directionBuffer = <<>>
             /\ ~(/\ state.food # <<>>
                  /\ state.food[1].x = 11 /\ state.food[1].y = 10))
              => tick(state, rng, store, now, 0).state.snake
                    = <<[x |-> 11, y |-> 10], [x |-> 10, y |-> 10],
                        [x |-> 9, y |-> 10]>>

\* The state after that first tick
C7_Witness ==
    /\ state.phase = "playing"
    /\ ticks = 1
    /\ state.tickCount = 1
    /\ state.snake = <<[x |-> 11, y |-> 10], [x |-> 10, y |-> 10],
                       [x |-> 9, y |-> 10]>>
    /\ state.gridWidth = 20 /\ state.gridHeight = 20

\* The new head of the next tick: the direction the buffer yields, one cell
\* on, wrapped in zen
NextHead(s) == newHeadOf(processDirectionBuffer(Engine(s, rng, store, <<>>, now)).state)

OffGrid(pos, s) ==
    pos.x < 0 \/ pos.x >= s.gridWidth \/ pos.y < 0 \/ pos.y >= s.gridHeight

OnBody(pos, s) == \E i \in 2..Len(s.snake) : s.snake[i] = pos

\* C8: in each of the first 3 ticks in playing after startGame, a move whose
\* new head hits a wall or the body is absorbed (the phase stays playing, no
\* segment moves); gameover is not reached before the 4th tick.
C8_GracePeriod ==
    /\ state.phase = "gameover" => ticks >= 4
    /\ (/\ state.phase = "playing"
        /\ ticks < 3
        /\ OffGrid(NextHead(state), state) \/ OnBody(NextHead(state), state))
         => \A j \in 0..MaxJitter :
               LET r == tick(state, rng, store, now, j)
               IN  r.state.phase = "playing" /\ r.state.snake = state.snake

\* The third tick of a classic game is about to run the snake into itself
C8_Witness ==
    /\ state.phase = "playing"
    /\ state.mode = "classic"
    /\ ticks = 2
    /\ OnBody(NextHead(state), state)
    /\ tick(state, rng, store, now, 0).state.gracePeriodTicks = 0

\* C9: in classic or daily, a tick whose new head collides while
\* gracePeriodTicks = 0 sets the phase to gameover, leaves the snake and the
\* score, and emits COLLISION{reason} then PHASE_CHANGE{playing, gameover}
\* and no TICK (a COMBO_BREAK may come first); reason is wall when the new
\* head is off the grid and self otherwise.
C9_GameOver ==
    (/\ state.phase = "playing"
     /\ state.mode \in {"classic", "daily"}
     /\ state.gracePeriodTicks = 0
     /\ OffGrid(NextHead(state), state) \/ OnBody(NextHead(state), state))
      => \A j \in 0..MaxJitter :
            LET r == tick(state, rng, store, now, j)
                reason == IF OffGrid(NextHead(state), state)
                          THEN "wall" ELSE "self"
                tail == <<[type |-> "COLLISION", reason |-> reason],
                          [type |-> "PHASE_CHANGE", from |-> "playing",
                           to |-> "gameover"]>>
            IN  /\ r.state.phase = "gameover"
                /\ r.state.snake = state.snake
                /\ r.state.score = state.score
                /\ r.events \in {tail, <<[type |-> "COMBO_BREAK"]>> \o tail}

\* A classic game ended by the snake running into itself
C9_Witness ==
    /\ state.phase = "playing"
    /\ state.mode = "classic"
    /\ state.gracePeriodTicks = 0
    /\ state.score > 0
    /\ tick(state, rng, store, now, 0).events
          = <<[type |-> "COMBO_BREAK"],
              [type |-> "COLLISION", reason |-> "self"],
              [type |-> "PHASE_CHANGE", from |-> "playing", to |-> "gameover"]>>

Observed(s) ==
    [snake    |-> s.snake,
     food     |-> IF s.food = <<>> THEN <<>>
                  ELSE <<s.food[1].x, s.food[1].y, s.food[1].type>>,
     score    |-> s.score,
     combo    |-> s.combo,
     tickRate |-> s.tickRate]

\* C11: the score s reached in a game of mode m is a lower bound of the
\* highScore after a later startGame(m), whether the game is left by a
\* restart (startGame) or through the menu (goToMenu, then startGame).
C11_HighScorePersists ==
    state.phase # "boot" =>
        \A wc \in WallClocks :
            /\ startGame(state, state.mode, wc, store, now).state.highScore
                  >= state.score
            /\ startGame(goToMenu(state).state, state.mode, wc, store,
                         now).state.highScore >= state.score

\* C12: two engines in the same state (same seed, grid and calls so far)
\* that receive the next tick at different clock times are in the same
\* observed state afterwards.
C12_ClockIndependent ==
    state.phase = "playing" =>
        \A d \in Deltas :
            Observed(tick(state, rng, store, now, 0).state)
                = Observed(tick(state, rng, store, now + d, 0).state)

\* The next tick moves the head onto the food, which has not expired
EatsNext(s) ==
    /\ s.phase = "playing"
    /\ Len(s.food) > 0
    /\ NextHead(s).x = s.food[1].x
    /\ NextHead(s).y = s.food[1].y
    /\ ~OffGrid(NextHead(s), s)
    /\ ~OnBody(NextHead(s), s)
    /\ isFoodValid(s.food[1], now)

\* The combo a consumption at the current time makes of the state's combo
UpdatedCombo(s) ==
    IF now - s.lastEatTime < COMBO_WINDOW_MS THEN s.combo + 1 ELSE 1

\* The base points of a food type
ClaimedBase(foodType) ==
    CASE foodType = "normal"  -> 10
      [] foodType = "special" -> 50
      [] foodType = "speed"   -> 30
      [] foodType = "slow"    -> 20

\* C13: a tick that consumes the food sets the combo to the previous combo
\* plus one when the previous consumption was less than comboWindow ago and
\* to 1 otherwise, adds base(type) + 5 x the updated combo to the score
\* (base: normal 10, special 50, speed 30, slow 20), and raises highScore to
\* the new score when the new score exceeds it.
C13_ScoreAndCombo ==
    EatsNext(state) =>
        /\ tick(state, rng, store, now, 0).state.combo = UpdatedCombo(state)
        /\ tick(state, rng, store, now, 0).state.score
              = state.score + ClaimedBase(state.food[1].type)
                    + 5 * UpdatedCombo(state)
        /\ tick(state, rng, store, now, 0).state.highScore
              = Max(state.highScore,
                    state.score + ClaimedBase(state.food[1].type)
                        + 5 * UpdatedCombo(state))

\* A special food in front of the head, within the window of a combo of 3,
\* whose points take the score past the high score
C13_Witness ==
    /\ EatsNext(state)
    /\ state.food[1].type = "special"
    /\ state.combo = 3
    /\ now - state.lastEatTime < COMBO_WINDOW_MS
    /\ state.score + 70 > state.highScore

\* The snake a tick leaves
SnakeAfterTick == tick(state, rng, store, now, 0).state.snake

\* The next tick consumes a food: the one in front of the head, or the one
\* spawned there in place of an expired one
TickEats == tick(state, rng, store, now, 0).state.score > state.score

\* C14: during a game the snake has at least 3 segments; a tick that
\* consumes a food makes it one segment longer, every other tick keeps its
\* length, and no other call before the next startGame changes the snake.
C14_SnakeLength ==
    state.phase \in {"playing", "paused", "gameover"} =>
        /\ Len(state.snake) >= 3
        /\ EatsNext(state) => TickEats
        /\ TickEats =>
              /\ Len(SnakeAfterTick) = Len(state.snake) + 1
              /\ SnakeAfterTick = <<NextHead(state)>> \o state.snake
        /\ ~TickEats =>
              /\ Len(SnakeAfterTick) = Len(state.snake)
              /\ SnakeAfterTick # state.snake =>
                    SnakeAfterTick
                        = <<NextHead(state)>>
                              \o SubSeq(state.snake, 1, Len(state.snake) - 1)
        /\ \A dir \in Directions :
              setDirection(state, dir).state.snake = state.snake
        /\ pause(state).state.snake = state.snake
        /\ resume(state).state.snake = state.snake
        /\ goToMenu(state).state.snake = state.snake

\* A game whose snake has grown by a consumption and has then moved on
C14_Witness ==
    /\ state.phase = "playing"
    /\ state.lastEatTime = now
    /\ state.tickCount > Len(state.snake)
    /\ Len(state.food) > 0

\* The ramp's target at a score
ClaimedTarget(score, baseTickRate) ==
    Max(50, baseTickRate - 3 * (score \div 50))

\* The tick rate a tick leaves, and the score it leaves
RateAfterTick == tick(state, rng, store, now, 0).state.tickRate

ScoreAfterTick == tick(state, rng, store, now, 0).state.score

\* The tick rate after the effect of the food in front of the head
ClaimedEffect(s) ==
    IF s.food[1].type = "speed" THEN Max(50, s.tickRate - 20)
    ELSE IF s.food[1].type = "slow" THEN Min(s.baseTickRate, s.tickRate + 30)
    ELSE s.tickRate

\* C15: in every state 50 <= tickRate <= baseTickRate.  A tick that consumes
\* a speed food announces max(50, tickRate - 20) as the new rate, one that
\* consumes a slow food leaves min(baseTickRate, tickRate + 30), and where
\* the rate a tick leaves is below the rate after the food's effect, it is
\* not below max(50, target).
C15_TickRateBounds ==
    /\ 50 <= state.tickRate
    /\ state.tickRate <= state.baseTickRate
    /\ EatsNext(state) =>
          /\ 50 <= RateAfterTick
          /\ RateAfterTick <= state.baseTickRate
          /\ state.food[1].type = "speed" =>
                \E i \in 1..Len(tick(state, rng, store, now, 0).events) :
                    tick(state, rng, store, now, 0).events[i]
                        = SpeedChange(Max(50, state.tickRate - 20))
          /\ state.food[1].type = "slow" =>
                RateAfterTick = Min(state.baseTickRate, state.tickRate + 30)
          /\ RateAfterTick < ClaimedEffect(state) =>
                RateAfterTick >= ClaimedTarget(ScoreAfterTick, state.baseTickRate)

\* A speed food in front of the head of a game whose tick rate is less than
\* 20 above the floor
C15_Witness ==
    /\ EatsNext(state)
    /\ state.food[1].type = "speed"
    /\ state.tickRate > 50
    /\ state.tickRate - 20 < 50

\* The rate the ramp makes of the rate e at the score a tick leaves
ClaimedRamp(e, s) ==
    IF e > ClaimedTarget(ScoreAfterTick, s.baseTickRate)
    THEN Max(ClaimedTarget(ScoreAfterTick, s.baseTickRate), e - 2)
    ELSE e

\* C16: a tick that consumes a food other than slow leaves the tick rate at
\* max(target, e - 2) when e, the rate after the food's effect, exceeds
\* target = max(50, baseTickRate - 3 * floor(score / 50)) at the new score,
\* and at e otherwise; a slow food leaves it at e; a normal or special food
\* lowers it by at most 2 and never raises it.
C16_SpeedRamp ==
    EatsNext(state) =>
        /\ state.food[1].type # "slow" =>
              RateAfterTick = ClaimedRamp(ClaimedEffect(state), state)
        /\ state.food[1].type = "slow" => RateAfterTick = ClaimedEffect(state)
        /\ state.food[1].type \in {"normal", "special"} =>
              /\ RateAfterTick <= state.tickRate
              /\ RateAfterTick >= state.tickRate - 2

\* A normal food in front of the head whose points take the score to a level
\* whose target is below the tick rate
C16_Witness ==
    /\ EatsNext(state)
    /\ state.food[1].type = "normal"
    /\ state.tickRate > ClaimedTarget(ScoreAfterTick, state.baseTickRate)
    /\ RateAfterTick = state.tickRate - 2

\* C17: while the mode is zen the phase is never gameover.  A tick of a zen
\* game leaves the phase at playing and the head on the grid; when the
\* wrapped new head is on the body, the tick moves no segment, scores
\* nothing and counts gracePeriodTicks down, whatever its value.
C17_ZenNeverEnds ==
    state.mode = "zen" =>
        /\ state.phase # "gameover"
        /\ state.phase = "playing" =>
              /\ tick(state, rng, store, now, 0).state.phase = "playing"
              /\ ~OffGrid(NextHead(state), state)
              /\ ~OffGrid(tick(state, rng, store, now, 0).state.snake[1], state)
                    \/ tick(state, rng, store, now, 0).state.snake = state.snake
              /\ OnBody(NextHead(state), state) =>
                    /\ tick(state, rng, store, now, 0).state.snake = state.snake
                    /\ tick(state, rng, store, now, 0).state.score = state.score
                    /\ tick(state, rng, store, now, 0).state.gracePeriodTicks
                          = state.gracePeriodTicks - 1

\* A zen game past its grace period whose wrapped new head is on the body
C17_Witness ==
    /\ state.mode = "zen"
    /\ state.phase = "playing"
    /\ state.gracePeriodTicks <= 0
    /\ OnBody(NextHead(state), state)
    /\ OffGrid(getNextHeadPosition(state.snake[1],
                                   DIRECTION_VECTORS(state.direction)), state)

\* The cells of the grid of a state, and the cells of its snake
GridCells(s) == {Vec(x, y) : x \in 0..(s.gridWidth - 1), y \in 0..(s.gridHeight - 1)}

SnakeCells(s) == {s.snake[i] : i \in 1..Len(s.snake)}

\* generator states a spawn is tried with, next to the engine's own
SpawnSeeds == {rng, <<4660, 22136>>}

\* A spawn's result for the snake and grid of s: a food on a grid cell that
\* holds no segment, or none when every grid cell holds one
SpawnedOffSnake(food, s) ==
    IF Len(food) = 0
    THEN GridCells(s) \subseteq SnakeCells(s)
    ELSE Vec(food[1].x, food[1].y) \in GridCells(s) \ SnakeCells(s)

\* C18: the active food of a state is on no segment of its snake.  A
\* spawnFood for the state's snake and grid returns a food on a grid cell
\* that holds no segment, and returns none exactly when every grid cell
\* holds a segment.
C18_FoodOffSnake ==
    state.phase # "boot" =>
        /\ Len(state.food) > 0 =>
              Vec(state.food[1].x, state.food[1].y) \notin SnakeCells(state)
        /\ \A seed \in SpawnSeeds :
              SpawnedOffSnake(spawnFood(seed, state.snake, state.gridWidth,
                                        state.gridHeight, state.score, now).food,
                              state)

\* A game whose snake has just grown onto the last free cell of the grid
C18_Witness ==
    /\ state.phase = "playing"
    /\ GridCells(state) \subseteq SnakeCells(state)
    /\ Len(state.food) = 0
    /\ state.lastEatTime = now

\* Every cell of the grid holds a segment of the snake
GridFull(s) == GridCells(s) \subseteq SnakeCells(s)

\* The engine after the next tick
AfterTick == tick(state, rng, store, now, 0)

\* C19: a tick that consumes the food when the grown snake leaves no grid
\* cell free sets food to none, draws nothing from the generator and leaves
\* the phase at playing; so does the respawn of an expired food on a full
\* grid.  While food is none, no call but startGame sets it: a tick leaves
\* it none and draws nothing, and moves the snake as usual when the new
\* head is free.
C19_NoFoodWhenFull ==
    state.phase = "playing" =>
        /\ (EatsNext(state)
              /\ GridCells(state) \subseteq SnakeCells(state) \cup {NextHead(state)}) =>
              /\ Len(AfterTick.state.food) = 0
              /\ AfterTick.rng = rng
              /\ AfterTick.state.phase = "playing"
              /\ AfterTick.state.snake = <<NextHead(state)>> \o state.snake
              /\ AfterTick.events[Len(AfterTick.events)] = TickEvent
        /\ (Len(state.food) > 0 /\ ~isFoodValid(state.food[1], now)
              /\ GridFull(state)) =>
              /\ foodExpiration(Engine(state, rng, store, <<>>, now), now)
                    = Engine([state EXCEPT !.food = <<>>], rng, store, <<>>, now)
              /\ Len(AfterTick.state.food) = 0
              /\ AfterTick.rng = rng
        /\ Len(state.food) = 0 =>
              /\ Len(AfterTick.state.food) = 0
              /\ AfterTick.rng = rng
              /\ (~OffGrid(NextHead(state), state) /\ ~OnBody(NextHead(state), state)) =>
                    /\ AfterTick.state.phase = "playing"
                    /\ AfterTick.state.snake
                          = <<NextHead(state)>>
                                \o SubSeq(state.snake, 1, Len(state.snake) - 1)
                    /\ AfterTick.state.tickCount = state.tickCount + 1
              /\ \A dir \in Directions :
                    Len(setDirection(state, dir).state.food) = 0
              /\ Len(pause(state).state.food) = 0
              /\ \A g \in ResizedGrids :
                    Len(setGridSize(state, g[1], g[2]).state.food) = 0
              /\ \A wc \in WallClocks :
                    Len(startGame(state, state.mode, wc, store, now).state.food) > 0

\* A game that consumed its food on the last free cell and, its grid made
\* wider since, has moved on without a food
C19_Witness ==
    /\ state.phase = "playing"
    /\ Len(state.food) = 0
    /\ state.score > 0
    /\ state.snake[1].x >= LaneGrid[1]
    /\ state.tickCount > Len(state.snake)

\* getEmptyCells for the snake and the grid of the state
EmptyCellsNow ==
    getEmptyCells(state.gridWidth, state.gridHeight, state.snake)

\* C20 as claimed: getEmptyCells returns exactly the grid cells that hold no
\* segment, each once, in row-major order (row y = 0 by increasing x, then
\* row y = 1, and so on).
C20_RowMajor ==
    state.phase # "boot" =>
        /\ {EmptyCellsNow[i] : i \in 1..Len(EmptyCellsNow)}
              = GridCells(state) \ SnakeCells(state)
        /\ \A i, j \in 1..Len(EmptyCellsNow) :
              i < j =>
                  \/ EmptyCellsNow[i].y < EmptyCellsNow[j].y
                  \/ /\ EmptyCellsNow[i].y = EmptyCellsNow[j].y
                     /\ EmptyCellsNow[i].x < EmptyCellsNow[j].x

\* C20: getEmptyCells returns exactly the grid cells that hold no segment,
\* each once, in column-major order (column x = 0 by increasing y, then
\* column x = 1, and so on).
C20_ColumnMajor ==
    state.phase # "boot" =>
        /\ {EmptyCellsNow[i] : i \in 1..Len(EmptyCellsNow)}
              = GridCells(state) \ SnakeCells(state)
        /\ \A i, j \in 1..Len(EmptyCellsNow) :
              i < j =>
                  \/ EmptyCellsNow[i].x < EmptyCellsNow[j].x
                  \/ /\ EmptyCellsNow[i].x = EmptyCellsNow[j].x
                     /\ EmptyCellsNow[i].y < EmptyCellsNow[j].y

\* A state with two free cells that the two orders list differently, and
\* with segments on the grid
C20_Witness ==
    /\ state.phase = "playing"
    /\ \E i, j \in 1..Len(EmptyCellsNow) :
          /\ EmptyCellsNow[i].x < EmptyCellsNow[j].x
          /\ EmptyCellsNow[i].y > EmptyCellsNow[j].y
    /\ Len(EmptyCellsNow) < state.gridWidth * state.gridHeight

\* generator states a spawn is tried with: the engine's own, and one whose
\* second draw is a roll below every type threshold
RollSeeds == {rng, <<0, 0>>}

\* scores a spawn is tried with, on both sides of the threshold
RollScores == {30, 31}

\* A spawn's result sp for generator state seed and score sc on the snake
\* and grid of s: on a full grid no food and the generator untouched,
\* otherwise a food and the generator two draws on, the food normal when
\* sc <= 30
TwoDraws(sp, seed, sc, s) ==
    IF GridFull(s)
    THEN Len(sp.food) = 0 /\ sp.rng = seed
    ELSE /\ Len(sp.food) = 1
         /\ sp.rng = RngStep(RngStep(seed))
         /\ sp.rng # RngStep(seed)
         /\ sc <= 30 => sp.food[1].type = "normal"

\* C21: a spawnFood that returns a food leaves the generator exactly two
\* draws on, whatever the score; for a score of 30 or less the food is
\* normal whatever the roll; a spawnFood on a full grid draws nothing.
C21_SpawnDraws ==
    state.phase # "boot" =>
        \A seed \in RollSeeds, sc \in RollScores :
            TwoDraws(spawnFood(seed, state.snake, state.gridWidth,
                               state.gridHeight, sc, now),
                     seed, sc, state)

\* A game at a score of 30 or less with a free cell, for which the roll of
\* one of the generator states tried gives a special food above the
\* threshold
C21_Witness ==
    /\ state.phase = "playing"
    /\ state.score <= 30
    /\ ~GridFull(state)
    /\ spawnFood(<<0, 0>>, state.snake, state.gridWidth, state.gridHeight,
                 31, now).food[1].type = "special"

\* The clock samples a tick of the state is tried with: the current time,
\* the food's expiry time and the millisecond after it, or, for a normal
\* food, the time another food would have expired by
ExpiryTimes(s) ==
    {now}
      \cup (IF Len(s.food) = 0 THEN {}
            ELSE IF Len(s.food[1].expiresAt) = 0
            THEN {Max(now, s.food[1].spawnTime + SPECIAL_DURATION + 1)}
            ELSE {Max(now, s.food[1].expiresAt[1]),
                  Max(now, s.food[1].expiresAt[1] + 1)})

\* The tick r of state s at clock sample t has left the food alone (unless
\* it consumed it) when the food is normal or t is not past its expiry
\* time, and has otherwise put a spawn for the snake before the move and
\* the current score in its place (unless it consumed that one)
ExpiryObserved(r, s, sp, t) ==
    IF Len(s.food[1].expiresAt) > 0 /\ t > s.food[1].expiresAt[1]
    THEN /\ r.state.score = s.score => (r.state.food = sp.food /\ r.rng = sp.rng)
         /\ Len(sp.food) > 0 => sp.food[1].spawnTime = t
         /\ r.state.score > s.score =>
               /\ Len(sp.food) > 0
               /\ r.state.snake[1] = Vec(sp.food[1].x, sp.food[1].y)
    ELSE /\ r.state.score = s.score => (r.state.food = s.food /\ r.rng = rng)
         /\ r.state.score > s.score =>
               r.state.snake[1] = Vec(s.food[1].x, s.food[1].y)

\* C22: a food has an expiresAt, 8000 ms after its spawn time, exactly when
\* it is not normal.  A tick leaves a normal food in place at any time, and
\* a food that is not normal as long as its clock sample is not past
\* expiresAt; the first tick whose sample is past it replaces the food by a
\* spawn made for the current score and for the snake as it is before the
\* move.
C22_FoodExpiry ==
    (state.phase = "playing" /\ Len(state.food) > 0) =>
        /\ Len(state.food[1].expiresAt) > 0 <=> state.food[1].type # "normal"
        /\ Len(state.food[1].expiresAt) > 0 =>
              state.food[1].expiresAt[1] = state.food[1].spawnTime + 8000
        /\ \A t \in ExpiryTimes(state) :
              ExpiryObserved(tick(state, rng, store, t, 0), state,
                             spawnFood(rng, state.snake, state.gridWidth,
                                       state.gridHeight, state.score, t),
                             t)

\* A game whose food is not normal and has expired, with a free cell for
\* the next one
C22_Witness ==
    /\ state.phase = "playing"
    /\ Len(state.food) > 0
    /\ state.food[1].type # "normal"
    /\ now > state.food[1].expiresAt[1]
    /\ ~GridFull(state)

\* The clock samples a tick of the state is tried with: the current time,
\* the end of the combo window and the millisecond after it
ComboTimes(s) ==
    {now, Max(now, s.lastEatTime + 2500), Max(now, s.lastEatTime + 2501)}

\* The number of COMBO_BREAK events in a sequence of events
RECURSIVE ComboBreaks(_)
ComboBreaks(events) ==
    IF Len(events) = 0 THEN 0
    ELSE (IF events[1] = ComboBreak THEN 1 ELSE 0) + ComboBreaks(Tail(events))

\* The tick r of state s at clock sample t emits COMBO_BREAK exactly when s
\* is playing with a combo and t is more than 2500 ms past lastEatTime; it
\* emits it once, before every other event, and leaves the combo at 0, or
\* at 1 when it then consumes a food
ComboBreakObserved(r, s, t) ==
    IF s.phase = "playing" /\ s.combo > 0 /\ t - s.lastEatTime > 2500
    THEN /\ ComboBreaks(r.events) = 1
         /\ r.events[1] = ComboBreak
         /\ r.state.combo = IF r.state.score > s.score THEN 1 ELSE 0
    ELSE ComboBreaks(r.events) = 0

\* C23: a tick emits COMBO_BREAK exactly when it finds the phase playing,
\* combo > 0 and more than 2500 ms elapsed since lastEatTime; it resets the
\* combo to 0 before the move.  A later tick that follows with no
\* consumption in between emits no second COMBO_BREAK, however late.
C23_ComboBreak ==
    \A t \in ComboTimes(state) :
        /\ ComboBreakObserved(tick(state, rng, store, t, 0), state, t)
        /\ tick(state, rng, store, t, 0).state.score = state.score =>
              ComboBreaks(tick(tick(state, rng, store, t, 0).state,
                               tick(state, rng, store, t, 0).rng,
                               tick(state, rng, store, t, 0).store,
                               t + 2501, 0).events)
                  <= (IF ComboBreaks(tick(state, rng, store, t, 0).events) = 0
                      THEN 1 ELSE 0)

\* A game with a combo whose window has run out
C23_Witness ==
    /\ state.phase = "playing"
    /\ state.combo > 0
    /\ now - state.lastEatTime > 2500

\* ms that pass between the clock sample of tick and the one of eatFood
SampleGaps == {0, 1}

\* C24: the decisions and timestamps of one tick call all come from the
\* clock sample the tick takes: whatever time passes inside the call before
\* eatFood and spawnFood run, the tick leaves the state it leaves when no
\* time passes.
C24_OneClockSample ==
    state.phase = "playing" =>
        \A j \in SampleGaps :
            tick(state, rng, store, now, j).state
                = tick(state, rng, store, now, 0).state

\* The callback of the frame d ms after the last call
FrameAfter(d) ==
    loopCallback(loop, Engine(state, rng, store, <<>>, now + d), now + d)

\* C25: every engine.tick(d) call of a callback is made while the
\* accumulator is at least the tick rate the engine has at that call, and
\* passes that tick rate as d (the value it then subtracts), also when the
\* tick rate has changed earlier in the same frame.
C25_TicksAtCurrentRate ==
    \A d \in FrameDeltas :
        \A i \in 1..Len(FrameAfter(d).calls) :
            /\ FrameAfter(d).calls[i].accumulator >= FrameAfter(d).calls[i].tickRate
            /\ FrameAfter(d).calls[i].d = FrameAfter(d).calls[i].tickRate

\* C26: the alpha a callback renders with, accumulator / tickRate, is at
\* least 0 and less than 1, in every phase.
C26_AlphaInUnitInterval ==
    \A d \in FrameDeltas :
        Len(FrameAfter(d).alpha) > 0 =>
            /\ 0 <= FrameAfter(d).alpha[1].accumulator
            /\ FrameAfter(d).alpha[1].accumulator < FrameAfter(d).alpha[1].tickRate

\* The sum of the d of a sequence of tick calls
RECURSIVE TimeSimulated(_)
TimeSimulated(calls) ==
    IF Len(calls) = 0 THEN 0 ELSE calls[1].d + TimeSimulated(Tail(calls))

\* The callback r2 that follows d2 ms after a first callback has measured d2
\* from it: with the game playing, the time it simulated and the time it
\* left in the accumulator add up to d2, capped at 250 ms
MeasuredFromBaseline(r2, d2) ==
    IF state.phase = "playing"
    THEN TimeSimulated(r2.calls) + r2.loop.accumulator = Min(d2, 250)
    ELSE Len(r2.calls) = 0 /\ r2.loop.accumulator = 0

\* The first callback r, at the given timestamp, only took the timestamp as
\* the baseline and zeroed the accumulator, and the callback after it
\* measures from that baseline
OnlySyncs(r, timestamp) ==
    /\ Len(r.calls) = 0
    /\ Len(r.alpha) = 0
    /\ r.engine.state = state
    /\ r.engine.rng = rng
    /\ r.loop.lastTime = timestamp
    /\ r.loop.accumulator = 0
    /\ ~r.loop.isFirstFrame
    /\ \A d2 \in FrameDeltas :
          MeasuredFromBaseline(
              loopCallback(r.loop, Engine(state, rng, store, <<>>, timestamp + d2),
                           timestamp + d2),
              d2)

\* C27: the first callback after start() or reset() calls no engine.tick and
\* renders nothing, whatever time has passed and whatever the accumulator
\* held: it records its timestamp and zeroes the accumulator, and the
\* callback after it measures its delta from that timestamp.
C27_FirstFrameSyncs ==
    \A d \in FrameDeltas :
        /\ OnlySyncs(loopCallback(loopStart(loop),
                                  Engine(state, rng, store, <<>>, now + d), now + d),
                     now + d)
        /\ OnlySyncs(loopCallback(loopReset(loop),
                                  Engine(state, rng, store, <<>>, now + d), now + d),
                     now + d)
        /\ loop.isFirstFrame => OnlySyncs(FrameAfter(d), now + d)

\* A playing game whose loop was stopped with time left in the accumulator
\* and started again, its first frame due
C27_Witness ==
    /\ state.phase = "playing"
    /\ loop.isFirstFrame
    /\ loop.raf
    /\ loop.accumulator > 0
    /\ loop.lastTime = now

\* C28: a classic or daily game on a fixed grid that stays in play, keeps
\* receiving ticks and, from some point on, receives no setDirection,
\* eventually ends in the phase gameover
C28_EventuallyGameOver ==
    (state.phase = "playing" /\ state.mode \in {"classic", "daily"})
        ~> (state.phase = "gameover")

\* A game that ended after the last turn could reach it
C28_Witness ==
    /\ state.phase = "gameover"
    /\ state.mode \in {"classic", "daily"}
    /\ state.tickCount >= MaxSteerTicks
    /\ state.directionBuffer = <<>>

\* Two directions at a right angle
Perpendicular(a, b) == a # b /\ OPPOSITE_DIRECTION(a) # b

\* Every buffered direction is at a right angle to the one before it, the
\* first to the current direction
BufferTurns(s) ==
    \A i \in 1..Len(s.directionBuffer) :
        Perpendicular(s.directionBuffer[i],
                      IF i = 1 THEN s.direction ELSE s.directionBuffer[i - 1])

\* What the tick r did to the direction of s: it took the buffered direction
\* if there was one, and turned by a right angle if it turned at all
TurnTaken(r, s) ==
    /\ Len(s.directionBuffer) > 0 =>
          /\ OPPOSITE_DIRECTION(s.directionBuffer[1]) # s.direction
          /\ r.state.direction = s.directionBuffer[1]
          /\ r.state.directionBuffer = Tail(s.directionBuffer)
    /\ r.state.direction # s.direction =>
          Perpendicular(r.state.direction, s.direction)
    /\ BufferTurns(r.state)

\* C29: every direction in directionBuffer is perpendicular to its
\* predecessor (the previous buffered direction, or the current direction for
\* the first entry), also after any setDirection; so the direction tick
\* dequeues is never the opposite of the current one, tick's safety check
\* discards no input, and a tick that changes the direction turns it by 90
\* degrees
C29_PerpendicularTurns ==
    /\ BufferTurns(state)
    /\ \A dir \in Directions : BufferTurns(setDirection(state, dir).state)
    /\ state.phase = "playing" =>
          TurnTaken(tick(state, rng, store, now, 0), state)

\* A game that has turned and holds two more turns in its buffer
C29_Witness ==
    /\ state.phase = "playing"
    /\ state.direction # "RIGHT"
    /\ Len(state.directionBuffer) = 2

\* The next tick of s finds a collision and absorbs it: grace ticks remain,
\* or the game is a zen game and the head would hit the body
AbsorbsNext(s) ==
    /\ s.phase = "playing"
    /\ OffGrid(NextHead(s), s) \/ OnBody(NextHead(s), s)
    /\ s.gracePeriodTicks > 0 \/ (s.mode = "zen" /\ OnBody(NextHead(s), s))

\* The tick r left the snake of s in place, and its score, tick rate and
\* tick count as they were, spent one grace tick and emitted one TICK, last
FrozenTick(r, s) ==
    /\ r.state.snake = s.snake
    /\ r.state.score = s.score
    /\ r.state.tickRate = s.tickRate
    /\ r.state.tickCount = s.tickCount
    /\ r.state.gracePeriodTicks = s.gracePeriodTicks - 1
    /\ r.state.phase = "playing"
    /\ Len(r.events) > 0
    /\ r.events[Len(r.events)] = TickEvent
    /\ Cardinality({i \in 1..Len(r.events) : r.events[i].type = "TICK"}) = 1

\* C30: a tick whose collision is absorbed (grace ticks remaining, or a self
\* collision in zen mode) leaves every segment of the snake, its length, the
\* score, tickRate and tickCount unchanged, decrements gracePeriodTicks by
\* exactly one and emits exactly one TICK, as its last event
C30_AbsorbedTick ==
    AbsorbsNext(state) => FrozenTick(tick(state, rng, store, now, 0), state)

\* A game started again whose grace period absorbed a hit: a grace tick is
\* spent that no move accounts for, and the next tick absorbs one more
C30_Witness ==
    /\ state.gracePeriodTicks > 0
    /\ state.tickCount + state.gracePeriodTicks < GRACE_PERIOD_TICKS
    /\ AbsorbsNext(state)

\* The operations other than startGame and tick leave both rates of s alone
RatesKeptByCalls(s) ==
    \A r \in {pause(s), resume(s), togglePause(s), goToMenu(s)}
             \cup {setDirection(s, dir) : dir \in Directions}
             \cup {setGridSize(s, g[1], g[2]) : g \in ResizedGrids} :
        /\ r.state.tickRate = s.tickRate
        /\ r.state.baseTickRate = s.baseTickRate

\* C31: tickRate changes only in startGame and at a food consumption: a tick
\* that consumes no food leaves tickRate and baseTickRate unchanged, as does
\* every other call but startGame, so a tickRate raised by a slow food stays
\* raised until the next food is eaten, and is not lowered then if that food
\* is a slow one
C31_RateChangesOnlyAtFood ==
    /\ RatesKeptByCalls(state)
    /\ AfterTick.state.baseTickRate = state.baseTickRate
    /\ ~TickEats => RateAfterTick = state.tickRate
    /\ EatsNext(state) /\ state.food[1].type = "slow" =>
          RateAfterTick >= state.tickRate

\* A slow food has just put the rate back to the base rate, above the target
\* of the score, and the next tick consumes nothing
C31_Witness ==
    /\ state.phase = "playing"
    /\ ticks > 0
    /\ state.lastEatTime = now
    /\ state.tickRate = state.baseTickRate
    /\ state.tickRate > ClaimedTarget(state.score, state.baseTickRate)
    /\ ~TickEats
    /\ Len(AfterTick.state.snake) > 0
    /\ AfterTick.state.snake[1] # state.snake[1]

\* Two cells next to each other in a row or a column of the grid of s; in zen
\* the first and the last cell of a row or column are next to each other
Adjacent(a, b, s) ==
    LET dx == IF a.x >= b.x THEN a.x - b.x ELSE b.x - a.x
        dy == IF a.y >= b.y THEN a.y - b.y ELSE b.y - a.y
    IN  \/ dy = 0 /\ (dx = 1 \/ (s.mode = "zen" /\ dx = s.gridWidth - 1))
        \/ dx = 0 /\ (dy = 1 \/ (s.mode = "zen" /\ dy = s.gridHeight - 1))

\* The segments of the snake of s are on distinct cells, each next to the
\* one before it
SnakeIsPath(s) ==
    /\ \A i, k \in 1..Len(s.snake) :
          i # k => Vec(s.snake[i].x, s.snake[i].y) # Vec(s.snake[k].x, s.snake[k].y)
    /\ \A i \in 2..Len(s.snake) : Adjacent(s.snake[i - 1], s.snake[i], s)

\* C32: in every state of a game played on a grid of at least 4 x 2 cells
\* that is not resized during the game, the segments of the snake are on
\* pairwise distinct cells and consecutive segments are orthogonally adjacent
\* (adjacent modulo the grid size in zen)
C32_SnakeIsPath ==
    state.phase \in {"playing", "paused", "gameover"} => SnakeIsPath(state)

\* A zen snake that has grown and lies across the edge of the grid
C32_Witness ==
    /\ state.phase = "playing"
    /\ state.mode = "zen"
    /\ Len(state.snake) > 3
    /\ \E i \in 2..Len(state.snake) :
          state.snake[i - 1].x = 0 /\ state.snake[i].x = state.gridWidth - 1

\* C33: gracePeriodTicks stays within 0..3 in every reachable state: startGame
\* resets it to 3 and no tick, in any mode, decrements it below 0
C33_GraceWithinBounds ==
    /\ state.gracePeriodTicks \in 0..GRACE_PERIOD_TICKS
    /\ AfterTick.state.gracePeriodTicks \in 0..GRACE_PERIOD_TICKS

\* The directions in which a move takes the snake of s from the cell of its
\* second segment to the cell of its head (one, but for a zen grid 2 wide or high)
LastMoves(s) ==
    {d \in Directions :
        LET to == getNextHeadPosition(s.snake[2], DIRECTION_VECTORS(d))
        IN  Vec(s.snake[1].x, s.snake[1].y)
              = IF s.mode = "zen"
                THEN wrapPosition(to, s.gridWidth, s.gridHeight)
                ELSE to}

\* The direction the next tick of s moves in: the current one, or the one it
\* takes from the buffer
DirectionUsed(s) ==
    processDirectionBuffer(Engine(s, rng, store, <<>>, now)).state.direction

\* C34: the head never turns back into its own neck: on every tick in phase
\* playing the direction used for the move is not the opposite of the
\* direction of the snake's last actual move (from snake[1] to snake[0]),
\* also when earlier ticks were absorbed without moving
C34_NoTurnIntoNeck ==
    state.phase = "playing" /\ Len(state.snake) >= 2 =>
        \E d \in LastMoves(state) : OPPOSITE_DIRECTION(DirectionUsed(state)) # d

\* C35: in every reachable state highScore >= score, the stored high scores
\* being non-negative: startGame loads highScore and sets the score to 0, and
\* a consumption that lifts the score above highScore lifts highScore to it
C35_HighScoreAtLeastScore ==
    /\ \A m \in Modes : store[m] >= 0
    /\ state.highScore >= state.score
    /\ AfterTick.state.highScore >= AfterTick.state.score
    /\ TickEats =>
          AfterTick.state.highScore = Max(state.highScore, AfterTick.state.score)
    /\ state.phase = "playing" /\ ticks = 0 =>
          state.score = 0 /\ state.highScore = store[state.mode]

\* A game whose score has passed the high score it started with
C35_Witness ==
    /\ state.phase = "playing"
    /\ state.score > store[state.mode]
    /\ state.highScore = state.score
    /\ ticks > 0

\* The SPEED_CHANGE events among the events of a call
SpeedChanges(events) ==
    {i \in 1..Len(events) : events[i].type = "SPEED_CHANGE"}

\* C36: observers can track the speed from the events alone: every change of
\* tickRate during play is announced by a SPEED_CHANGE event of the same
\* tick, and the newTickRate of every SPEED_CHANGE is the engine's tickRate
\* when that tick returns
C36_SpeedChangeAnnounced ==
    state.phase = "playing" =>
        /\ RateAfterTick # state.tickRate => SpeedChanges(AfterTick.events) # {}
        /\ \A i \in SpeedChanges(AfterTick.events) :
              AfterTick.events[i].newTickRate = RateAfterTick

\* C37: after any sequence of public operations, setGridSize calls during a
\* game included, whenever the phase is playing every segment of the snake
\* and the active food, if any, lie inside the current grid
C37_InsideGrid ==
    state.phase = "playing" =>
        /\ \A i \in 1..Len(state.snake) : ~OffGrid(state.snake[i], state)
        /\ Len(state.food) > 0 => ~OffGrid(state.food[1], state)

\* how long a game stays paused, in ms
PauseLengths == {1, COMBO_WINDOW_MS, SPECIAL_DURATION + 1}

\* What a tick leaves of the combo and of the food, and whether it broke the
\* combo; the times a food carries are left out
ComboAndFood(r) ==
    [combo  |-> r.state.combo,
     food   |-> [i \in 1..Len(r.state.food) |->
                    <<r.state.food[i].x, r.state.food[i].y, r.state.food[i].type>>],
     broken |-> \E i \in 1..Len(r.events) : r.events[i].type = "COMBO_BREAK"]

\* C38: time spent in phase paused counts neither toward the combo window nor
\* toward the expiry of the food: after pause() and, any time later,
\* resume(), the next tick leaves the combo and the active food as it would
\* have left them without the pause, and emits no COMBO_BREAK of its own
C38_PauseStopsTimers ==
    state.phase = "playing" =>
        \A d \in PauseLengths :
            ComboAndFood(tick(resume(pause(state).state).state, rng, store,
                              now + d, 0))
              = ComboAndFood(AfterTick)

\* ms between two callbacks around a pause: two ordinary frames, and the
\* gap of a tab that delivered no frame for a while
PauseFrames == FrameDeltas \cup {5000}

\* The callback r, run on refs lp while the engine was not playing, called
\* no tick, left the engine alone and added nothing to the accumulator
IdleFrame(r, lp) ==
    /\ Len(r.calls) = 0
    /\ r.engine.state = state
    /\ r.engine.rng = rng
    /\ r.loop.accumulator = (IF lp.isFirstFrame THEN 0 ELSE lp.accumulator)

\* The callback r, the first one after the phase returned to playing, run d
\* ms after the last callback on refs lp, added d capped at 250 ms and no
\* more: what it simulated and what it left add up to that
ResumeFrame(r, lp, d) ==
    /\ TimeSimulated(r.calls) + r.loop.accumulator
          = (IF lp.isFirstFrame THEN 0 ELSE lp.accumulator + Min(d, 250))
    /\ \A i \in 1..Len(r.calls) : r.calls[i].d > 0

\* The first callback after togglePause() resumes the paused game, d ms
\* after the last callback, which left the refs lp at clock t
FrameAfterResume(lp, t, d) ==
    loopCallback(lp, Engine(togglePause(state).state, rng, store, <<>>, t + d),
                 t + d)

AutoPauseEvents == {"blur", "visibilitychange"}

\* The state the handler of event ev leaves, the document being hidden
AfterAutoPause(ev, s) ==
    IF ev = "blur" THEN handleBlur(s).state
    ELSE handleVisibilityChange(s, TRUE).state

\* C40: auto-pause never un-pauses: when the handlers of the window's blur
\* and of the document's becoming hidden both run, in either order, on a
\* game that is playing, the phase ends up paused, and when they run on a
\* game that is paused it stays paused; nothing but the phase changes
C40_AutoPauseNeverUnpauses ==
    state.phase \in {"playing", "paused"} =>
        \A first \in AutoPauseEvents, second \in AutoPauseEvents :
            /\ AfterAutoPause(first, state) = [state EXCEPT !.phase = "paused"]
            /\ AfterAutoPause(second, AfterAutoPause(first, state))
                  = [state EXCEPT !.phase = "paused"]

\* A game that was ticked and is now paused
C40_Witness ==
    /\ state.phase = "paused"
    /\ ticks > 0

=============================================================================
